---- MODULE Spec2Model ----
(***************************************************************************)
(* Model of the AWS Signature Version 4 signer of mvp-bridge                *)
(* (internal/deploy/aws.go), of the operations around it, and of the       *)
(* Normalizer (internal/normalize/rules.go).                               *)
(*                                                                         *)
(* Strings are sequences of one-character strings, byte slices are         *)
(* sequences of integers in 0..255.  The Go standard library is modelled   *)
(* by what the called function does (strings.ToLower, strings.TrimSpace,   *)
(* sort.Strings, url.ParseQuery, http.Header.Set, hex.EncodeToString ...). *)
(* SHA-256 is not computed: the digests of the inputs of the published    *)
(* test vectors are tabulated, every other input gets a 32-byte digest of  *)
(* the same shape (fixed output width, every input byte and the input      *)
(* length enter the result) whose value is not that of SHA-256.            *)
(***************************************************************************)
EXTENDS Integers, Sequences, FiniteSets, TLC

(***************************************************************************)
(* Bytes and characters.                                                   *)
(***************************************************************************)

\* The printable ASCII characters, code 32 (space) to 126 (~), in code order
\* (code 96 is written GRAVE).
Printable ==
  << " ", "!", "\"", "#", "$", "%", "&", "'", "(", ")", "*", "+", ",", "-", ".", "/",
     "0", "1", "2", "3", "4", "5", "6", "7", "8", "9", ":", ";", "<", "=", ">", "?",
     "@", "A", "B", "C", "D", "E", "F", "G", "H", "I", "J", "K", "L", "M", "N", "O",
     "P", "Q", "R", "S", "T", "U", "V", "W", "X", "Y", "Z", "[", "\\", "]", "^", "_",
     "GRAVE", "a", "b", "c", "d", "e", "f", "g", "h", "i", "j", "k", "l", "m", "n", "o",
     "p", "q", "r", "s", "t", "u", "v", "w", "x", "y", "z", "{", "|", "}", "~" >>

PrintableSet == { Printable[i] : i \in 1..Len(Printable) }

OrdTab == [ c \in PrintableSet |-> 31 + (CHOOSE i \in 1..Len(Printable) : Printable[i] = c) ]

\* byte(c): the code of a character (tab and newline besides the printable ones).
Ord(c) == IF c = "\n" THEN 10 ELSE IF c = "\t" THEN 9 ELSE OrdTab[c]

\* string(b) for a byte that Ord yields
Chr(b) == IF b = 10 THEN "\n" ELSE IF b = 9 THEN "\t" ELSE Printable[b - 31]

\* []byte(s)
Bytes(s) == [ i \in 1..Len(s) |-> Ord(s[i]) ]

IsUpperChar(c) == Ord(c) >= 65 /\ Ord(c) <= 90
IsLowerChar(c) == Ord(c) >= 97 /\ Ord(c) <= 122
IsDigitChar(c) == Ord(c) >= 48 /\ Ord(c) <= 57

ToLowerChar(c) == IF IsUpperChar(c) THEN Chr(Ord(c) + 32) ELSE c
ToUpperChar(c) == IF IsLowerChar(c) THEN Chr(Ord(c) - 32) ELSE c

\* strings.ToLower
ToLower(s) == [ i \in 1..Len(s) |-> ToLowerChar(s[i]) ]

\* unicode.IsSpace restricted to ASCII: space, tab, newline
IsSpaceChar(c) == c = " " \/ c = "\t" \/ c = "\n"

RECURSIVE TrimLeft(_)
TrimLeft(s) == IF s # <<>> /\ IsSpaceChar(Head(s)) THEN TrimLeft(Tail(s)) ELSE s

RECURSIVE TrimRight(_)
TrimRight(s) ==
  IF s # <<>> /\ IsSpaceChar(s[Len(s)]) THEN TrimRight(SubSeq(s, 1, Len(s) - 1)) ELSE s

\* strings.TrimSpace
TrimSpace(s) == TrimRight(TrimLeft(s))

\* strings.HasPrefix
HasPrefix(s, p) == Len(s) >= Len(p) /\ SubSeq(s, 1, Len(p)) = p

\* s < t in Go string order (bytewise lexicographic)
RECURSIVE StrLess(_, _)
StrLess(s, t) ==
  IF t = <<>> THEN FALSE
  ELSE IF s = <<>> THEN TRUE
  ELSE IF Head(s) = Head(t) THEN StrLess(Tail(s), Tail(t))
  ELSE Ord(Head(s)) < Ord(Head(t))

\* insert x into the ascending sequence xs
RECURSIVE InsertSorted(_, _)
InsertSorted(x, xs) ==
  IF xs = <<>> THEN << x >>
  ELSE IF StrLess(Head(xs), x) THEN << Head(xs) >> \o InsertSorted(x, Tail(xs))
  ELSE << x >> \o xs

\* sort.Strings
RECURSIVE SortStrings(_)
SortStrings(xs) == IF xs = <<>> THEN <<>> ELSE InsertSorted(Head(xs), SortStrings(Tail(xs)))

\* the keys of a map as some sequence; sort.Strings makes the order irrelevant
RECURSIVE SetToSeq(_)
SetToSeq(S) == IF S = {} THEN <<>> ELSE LET x == CHOOSE y \in S : TRUE IN << x >> \o SetToSeq(S \ {x})

\* strings.Join
RECURSIVE Join(_, _)
Join(xs, sep) ==
  IF xs = <<>> THEN <<>>
  ELSE IF Len(xs) = 1 THEN xs[1]
  ELSE xs[1] \o sep \o Join(Tail(xs), sep)

\* strings.Split on a one-character separator
RECURSIVE Split(_, _)
Split(s, sep) ==
  IF \A i \in 1..Len(s) : s[i] # sep THEN << s >>
  ELSE LET i == CHOOSE j \in 1..Len(s) : s[j] = sep /\ \A k \in 1..(j - 1) : s[k] # sep
       IN << SubSeq(s, 1, i - 1) >> \o Split(SubSeq(s, i + 1, Len(s)), sep)

\* strings.Contains
Contains(s, sub) == \E i \in 0..(Len(s) - Len(sub)) : SubSeq(s, i + 1, i + Len(sub)) = sub

HexLower == << "0", "1", "2", "3", "4", "5", "6", "7", "8", "9", "a", "b", "c", "d", "e", "f" >>
HexUpper == << "0", "1", "2", "3", "4", "5", "6", "7", "8", "9", "A", "B", "C", "D", "E", "F" >>

\* hex.EncodeToString
RECURSIVE HexEncode(_)
HexEncode(bs) ==
  IF bs = <<>> THEN <<>>
  ELSE << HexLower[(Head(bs) \div 16) + 1], HexLower[(Head(bs) % 16) + 1] >> \o HexEncode(Tail(bs))

(***************************************************************************)
(* Digests.                                                                *)
(***************************************************************************)

\* sha256.Size: the width of a digest in bytes
DigestSize == 32

ModA == 65521
ModB == 65519

\* the digest function reads its input in blocks of this many bytes
BlockSize == 16

\* bytes lo..hi of the input folded into the two 16-bit accumulators
RECURSIVE AbsorbBlock(_, _, _, _, _)
AbsorbBlock(bs, lo, hi, a, b) ==
  IF lo > hi THEN << a, b >>
  ELSE LET a2 == (a * 31 + bs[lo] + 1) % ModA
           b2 == (b * 17 + a2 + lo) % ModB
       IN AbsorbBlock(bs, lo + 1, hi, a2, b2)

\* one pass over the input, block after block
RECURSIVE Absorb(_, _, _, _)
Absorb(bs, i, a, b) ==
  IF i > Len(bs) THEN << a, b >>
  ELSE LET hi == IF i + BlockSize - 1 > Len(bs) THEN Len(bs) ELSE i + BlockSize - 1
           st == AbsorbBlock(bs, i, hi, a, b)
       IN IF st[1] >= 0 THEN Absorb(bs, hi + 1, st[1], st[2]) ELSE st

\* sha256.Sum256 of the empty input: e3b0c442...7852b855
EmptyDigest ==
  << 227, 176, 196, 66, 152, 252, 28, 20, 154, 251, 244, 200, 153, 111, 185, 36,
     39, 174, 65, 228, 100, 155, 147, 76, 164, 149, 153, 27, 120, 82, 184, 85 >>

\* the digest of an input that is not tabulated: 32 bytes into which every
\* input byte and the input length enter
ShapeDigest(bs) ==
  LET st == Absorb(bs, 1, 1, Len(bs) % ModB)
      a  == st[1]
      b  == st[2]
  IN [ i \in 1..DigestSize |->
         IF i = 1 THEN a \div 256
         ELSE IF i = 2 THEN a % 256
         ELSE IF i = 3 THEN b \div 256
         ELSE IF i = 4 THEN b % 256
         ELSE ((a % 251) * i + (b % 241) * (i + 7) + i) % 256 ]

\* sha256.Sum256
Sum256(bs) == IF bs = <<>> THEN EmptyDigest ELSE ShapeDigest(bs)

\* the nested keyed digest of an input that is not tabulated
ShapeHMAC(key, data) ==
  LET ipad == [ i \in 1..Len(key) |-> (key[i] + 54) % 256 ]
      opad == [ i \in 1..Len(key) |-> (key[i] + 92) % 256 ]
  IN Sum256(opad \o << 0 >> \o Sum256(ipad \o << 0 >> \o data))

\* HMAC-SHA256 of the four stages of the key derivation for the secret
\* wJalrXUtnFEMI/K7MDENG+bPxRfiCYEXAMPLEKEY, 20150830, us-east-1, iam
KnownHMAC ==
  << [ key  |-> Bytes(<< "A", "W", "S", "4", "w", "J", "a", "l", "r", "X", "U", "t", "n", "F", "E", "M", "I", "/", "K", "7", "M", "D", "E", "N", "G", "+", "b", "P", "x", "R", "f", "i", "C", "Y", "E", "X", "A", "M", "P", "L", "E", "K", "E", "Y" >>),
       data |-> Bytes(<< "2", "0", "1", "5", "0", "8", "3", "0" >>),
       sum  |-> << 1, 56, 199, 166, 203, 214, 10, 167, 39, 178, 246, 83, 165, 34, 86, 116,
               57, 223, 185, 243, 231, 43, 33, 249, 178, 89, 65, 164, 47, 4, 167, 205 >> ],
     [ key  |-> << 1, 56, 199, 166, 203, 214, 10, 167, 39, 178, 246, 83, 165, 34, 86, 116,
               57, 223, 185, 243, 231, 43, 33, 249, 178, 89, 65, 164, 47, 4, 167, 205 >>,
       data |-> Bytes(<< "u", "s", "-", "e", "a", "s", "t", "-", "1" >>),
       sum  |-> << 243, 61, 88, 8, 80, 75, 243, 72, 18, 229, 250, 222, 99, 48, 139, 66,
               75, 36, 76, 89, 24, 155, 226, 165, 145, 221, 34, 130, 199, 203, 86, 63 >> ],
     [ key  |-> << 243, 61, 88, 8, 80, 75, 243, 72, 18, 229, 250, 222, 99, 48, 139, 66,
               75, 36, 76, 89, 24, 155, 226, 165, 145, 221, 34, 130, 199, 203, 86, 63 >>,
       data |-> Bytes(<< "i", "a", "m" >>),
       sum  |-> << 25, 158, 31, 72, 198, 2, 165, 174, 119, 206, 38, 164, 105, 6, 146, 14,
               118, 252, 132, 39, 174, 170, 83, 218, 100, 54, 70, 252, 218, 28, 207, 176 >> ],
     [ key  |-> << 25, 158, 31, 72, 198, 2, 165, 174, 119, 206, 38, 164, 105, 6, 146, 14,
               118, 252, 132, 39, 174, 170, 83, 218, 100, 54, 70, 252, 218, 28, 207, 176 >>,
       data |-> Bytes(<< "a", "w", "s", "4", "_", "r", "e", "q", "u", "e", "s", "t" >>),
       sum  |-> << 196, 175, 177, 204, 87, 113, 216, 113, 118, 58, 57, 62, 68, 183, 3, 87,
               27, 85, 204, 40, 66, 77, 26, 94, 134, 218, 110, 211, 193, 84, 164, 185 >> ] >>

\* a keyed digest that hands back its key
hmacSHA256_ReturnKey(key, data) == key

\* hmac.New(sha256.New, key); Write(data); Sum(nil)
hmacSHA256(key, data) ==
  IF \E k \in DOMAIN KnownHMAC : KnownHMAC[k].key = key /\ KnownHMAC[k].data = data
  THEN KnownHMAC[CHOOSE k \in DOMAIN KnownHMAC : KnownHMAC[k].key = key /\ KnownHMAC[k].data = data].sum
  ELSE ShapeHMAC(key, data)

\* sha256Hash: hex of the SHA-256 digest
sha256Hash(data) == HexEncode(Sum256(data))

(***************************************************************************)
(* Time.  A time.Time in UTC is its civil fields.                          *)
(***************************************************************************)

\* n in decimal, zero-padded to w digits (the "2006", "01", "02", "15", "04", "05" verbs)
RECURSIVE Pad(_, _)
Pad(n, w) == IF w = 0 THEN <<>> ELSE Pad(n \div 10, w - 1) \o << Chr(48 + (n % 10)) >>

\* t.Format("20060102")
FormatDateStamp(t) == Pad(t.year, 4) \o Pad(t.month, 2) \o Pad(t.day, 2)

\* t.Format("20060102T150405Z")
FormatAmzDate(t) ==
  FormatDateStamp(t) \o << "T" >> \o Pad(t.hour, 2) \o Pad(t.min, 2) \o Pad(t.sec, 2) \o << "Z" >>

(***************************************************************************)
(* http.Header: a map from the key as stored to the list of its values.    *)
(***************************************************************************)

\* the characters of an HTTP token (textproto: validHeaderFieldByte)
IsTokenChar(c) ==
  \/ IsUpperChar(c) \/ IsLowerChar(c) \/ IsDigitChar(c)
  \/ c \in { "!", "#", "$", "%", "&", "'", "*", "+", "-", ".", "^", "_", "GRAVE", "|", "~" }

\* textproto.CanonicalMIMEHeaderKey: "content-type" -> "Content-Type"; a key
\* holding a byte that is no token character is returned unchanged
CanonicalMIMEHeaderKey(k) ==
  IF \E i \in 1..Len(k) : ~IsTokenChar(k[i]) THEN k
  ELSE [ i \in 1..Len(k) |->
           IF i = 1 \/ k[i - 1] = "-" THEN ToUpperChar(k[i]) ELSE ToLowerChar(k[i]) ]

\* Header.Get: the first value stored under the canonical form of key, or ""
HeaderGet(h, key) ==
  LET ck == CanonicalMIMEHeaderKey(key)
  IN IF ck \in DOMAIN h /\ h[ck] # <<>> THEN h[ck][1] ELSE <<>>

\* h[key] = values, the key taken as written
HeaderAssign(h, key, values) ==
  [ k \in DOMAIN h \cup { key } |-> IF k = key THEN values ELSE h[k] ]

\* Header.Set: replaces the values stored under the canonical form of key
HeaderSet(h, key, value) == HeaderAssign(h, CanonicalMIMEHeaderKey(key), << value >>)

\* Header.Add: appends to the values stored under the canonical form of key
HeaderAdd(h, key, value) ==
  LET ck == CanonicalMIMEHeaderKey(key)
  IN HeaderAssign(h, ck, (IF ck \in DOMAIN h THEN h[ck] ELSE <<>>) \o << value >>)

\* http.Header{}
EmptyHeader == [ k \in {} |-> <<>> ]

(***************************************************************************)
(* Request bodies.  A body is nil or a reader: the bytes it still holds    *)
(* and the number of bytes after which Read fails (-1: it never fails).    *)
(***************************************************************************)

NeverFails == -1

NilBody == [ nil |-> TRUE, data |-> <<>>, failAfter |-> NeverFails ]

\* bytes.NewBuffer(data) behind io.NopCloser
NewBuffer(data) == [ nil |-> FALSE, data |-> data, failAfter |-> NeverFails ]

\* a reader that yields the first n bytes of data and then an error
FaultyReader(data, n) == [ nil |-> FALSE, data |-> data, failAfter |-> n ]

\* io.ReadAll: the bytes read, whether an error ended the read, the reader afterwards
ReadAll(body) ==
  IF body.failAfter = NeverFails
  THEN [ data |-> body.data, err |-> FALSE,
         rest |-> [ body EXCEPT !.data = <<>> ] ]
  ELSE [ data |-> SubSeq(body.data, 1, body.failAfter), err |-> TRUE,
         rest |-> [ body EXCEPT !.data = SubSeq(body.data, body.failAfter + 1, Len(body.data)),
                                !.failAfter = 0 ] ]

(***************************************************************************)
(* net/url: the query of a URL.                                            *)
(***************************************************************************)

IsHexChar(c) == IsDigitChar(c) \/ c \in { "a", "b", "c", "d", "e", "f", "A", "B", "C", "D", "E", "F" }

\* url.unhex: the value of a hex digit of either case
Unhex(c) ==
  IF IsDigitChar(c) THEN Ord(c) - 48
  ELSE IF IsLowerChar(c) THEN Ord(c) - 97 + 10
  ELSE Ord(c) - 65 + 10

\* strings.Cut: the text before and after the first sep
Cut(s, sep) ==
  IF \A i \in 1..Len(s) : s[i] # sep THEN [ before |-> s, after |-> <<>> ]
  ELSE LET i == CHOOSE j \in 1..Len(s) : s[j] = sep /\ \A k \in 1..(j - 1) : s[k] # sep
       IN [ before |-> SubSeq(s, 1, i - 1), after |-> SubSeq(s, i + 1, Len(s)) ]

\* url.QueryUnescape: %XX becomes the byte XX, + becomes a space; a % that is
\* not followed by two hex digits is an error
RECURSIVE QueryUnescape(_)
QueryUnescape(s) ==
  IF s = <<>> THEN [ ok |-> TRUE, val |-> <<>> ]
  ELSE IF Head(s) = "%"
    THEN IF Len(s) < 3 \/ ~IsHexChar(s[2]) \/ ~IsHexChar(s[3])
         THEN [ ok |-> FALSE, val |-> <<>> ]
         ELSE LET r == QueryUnescape(SubSeq(s, 4, Len(s)))
              IN [ ok |-> r.ok, val |-> << Chr(Unhex(s[2]) * 16 + Unhex(s[3])) >> \o r.val ]
    ELSE LET r == QueryUnescape(Tail(s))
         IN [ ok |-> r.ok, val |-> << IF Head(s) = "+" THEN " " ELSE Head(s) >> \o r.val ]

\* url.Values{}
EmptyValues == [ k \in {} |-> <<>> ]

\* url.parseQuery: the pairs of the raw query in order; a pair that holds a
\* semicolon or a bad escape, and an empty pair, is skipped
RECURSIVE ParseQueryInto(_, _)
ParseQueryInto(m, query) ==
  IF query = <<>> THEN m
  ELSE LET c    == Cut(query, "&")
           kv   == Cut(c.before, "=")
           key  == QueryUnescape(kv.before)
           val  == QueryUnescape(kv.after)
       IN IF \/ \E i \in 1..Len(c.before) : c.before[i] = ";"
             \/ c.before = <<>>
             \/ ~key.ok
             \/ ~val.ok
          THEN ParseQueryInto(m, c.after)
          ELSE ParseQueryInto(
                 [ k \in DOMAIN m \cup { key.val } |->
                     IF k = key.val
                     THEN (IF k \in DOMAIN m THEN m[k] ELSE <<>>) \o << val.val >>
                     ELSE m[k] ],
                 c.after)

\* (*url.URL).Query: ParseQuery(u.RawQuery) with the error dropped
URLQuery(u) == ParseQueryInto(EmptyValues, u.RawQuery)

(***************************************************************************)
(* Canonicalization (aws.go).                                              *)
(***************************************************************************)

\* isUnreserved: the unreserved characters of RFC 3986
isUnreserved(c) ==
  \/ IsUpperChar(c) \/ IsLowerChar(c) \/ IsDigitChar(c)
  \/ c = "-" \/ c = "_" \/ c = "." \/ c = "~"

\* fmt.Sprintf("%%%02X", b)
PercentHex(c) == << "%", HexUpper[(Ord(c) \div 16) + 1], HexUpper[(Ord(c) % 16) + 1] >>

\* uriEncode
RECURSIVE uriEncode(_, _)
uriEncode(s, encodeSlash) ==
  IF s = <<>> THEN <<>>
  ELSE (IF isUnreserved(Head(s)) THEN << Head(s) >>
        ELSE IF Head(s) = "/" /\ ~encodeSlash THEN << Head(s) >>
        ELSE PercentHex(Head(s)))
       \o uriEncode(Tail(s), encodeSlash)

\* the pairs name=value of one key, its values in the order given
QueryPairsOf(k, values) ==
  [ i \in 1..Len(values) |-> uriEncode(k, FALSE) \o << "=" >> \o uriEncode(values[i], FALSE) ]

\* the values of one key left in the order of the URL
SortedValues_AsGiven(values) == values

\* sort.Strings(values)
SortedValues(values) == SortStrings(values)

\* the loop over the sorted keys of getCanonicalQueryString
RECURSIVE QueryPairs(_, _)
QueryPairs(query, keys) ==
  IF keys = <<>> THEN <<>>
  ELSE QueryPairsOf(Head(keys), SortedValues(query[Head(keys)])) \o QueryPairs(query, Tail(keys))

\* getCanonicalQueryString
getCanonicalQueryString(query) ==
  IF DOMAIN query = {} THEN <<>>
  ELSE Join(QueryPairs(query, SortStrings(SetToSeq(DOMAIN query))), << "&" >>)

sHost        == << "h", "o", "s", "t" >>
sContentType == << "c", "o", "n", "t", "e", "n", "t", "-", "t", "y", "p", "e" >>
sXAmzPrefix  == << "x", "-", "a", "m", "z", "-" >>

\* a test that selects every header
IsSignedHeaderName_Any(lowerKey) == lowerKey # <<>>

\* the test that selects a header for signing
IsSignedHeaderName(lowerKey) ==
  lowerKey = sHost \/ lowerKey = sContentType \/ HasPrefix(lowerKey, sXAmzPrefix)

\* the keys of the header map that the loop of getCanonicalHeaders selects
SelectedKeys(h) == { k \in DOMAIN h : IsSignedHeaderName(ToLower(k)) }

\* The loop of getCanonicalHeaders ranges over a Go map, whose iteration order
\* is unspecified.  headers[lowerKey] is assigned once for every selected key,
\* so it keeps the value of the key iterated last among those that lowercase
\* to lowerKey: an iteration order is represented by that last key, for every
\* lowerKey.
IterationOrders(h) ==
  LET names == { ToLower(k) : k \in SelectedKeys(h) }
  IN { last \in [ names -> SelectedKeys(h) ] : \A n \in names : ToLower(last[n]) = n }

\* strings.TrimSpace of every value, joined by ","
TrimAndJoin(values) == Join([ i \in 1..Len(values) |-> TrimSpace(values[i]) ], << "," >>)

\* the lines "name:value\n" of the canonical header block
RECURSIVE HeaderLines(_, _)
HeaderLines(headers, keys) ==
  IF keys = <<>> THEN <<>>
  ELSE Head(keys) \o << ":" >> \o headers[Head(keys)] \o << "\n" >> \o HeaderLines(headers, Tail(keys))

\* the names left in descending order
getCanonicalHeaders_Descending(req, last) ==
  LET headers == [ n \in DOMAIN last |-> TrimAndJoin(req.Header[last[n]]) ]
      sorted  == SortStrings(SetToSeq(DOMAIN headers))
      keys    == [ k \in 1..Len(sorted) |-> sorted[Len(sorted) + 1 - k] ]
  IN << HeaderLines(headers, keys), Join(keys, << ";" >>) >>

\* getCanonicalHeaders: the canonical header block and the signed-header list
getCanonicalHeaders(req, last) ==
  LET headers == [ n \in DOMAIN last |-> TrimAndJoin(req.Header[last[n]]) ]
      keys    == SortStrings(SetToSeq(DOMAIN headers))
  IN << HeaderLines(headers, keys), Join(keys, << ";" >>) >>

\* the path taken as it is, also when it is empty
createCanonicalRequest_EmptyURI(req, payloadHash, last) ==
  LET canonicalQueryString == getCanonicalQueryString(URLQuery(req.URL))
      ch                   == getCanonicalHeaders(req, last)
  IN << Join(<< req.Method, req.URL.Path, canonicalQueryString, ch[1], ch[2], payloadHash >>,
             << "\n" >>),
        ch[2] >>

\* createCanonicalRequest: the canonical request and the signed-header list
createCanonicalRequest(req, payloadHash, last) ==
  LET canonicalURI         == IF req.URL.Path = <<>> THEN << "/" >> ELSE req.URL.Path
      canonicalQueryString == getCanonicalQueryString(URLQuery(req.URL))
      ch                   == getCanonicalHeaders(req, last)
  IN << Join(<< req.Method, canonicalURI, canonicalQueryString, ch[1], ch[2], payloadHash >>,
             << "\n" >>),
        ch[2] >>

(***************************************************************************)
(* Signing (aws.go).                                                       *)
(***************************************************************************)

sAWS4        == << "A", "W", "S", "4" >>
sAws4Request == << "a", "w", "s", "4", "_", "r", "e", "q", "u", "e", "s", "t" >>
sService     == << "a", "m", "p", "l", "i", "f", "y" >>
sAlgorithm   == << "A", "W", "S", "4", "-", "H", "M", "A", "C", "-", "S", "H", "A", "2", "5", "6" >>
sCredentialEq    == << " ", "C", "r", "e", "d", "e", "n", "t", "i", "a", "l", "=" >>
sSignedHeadersEq == << ",", " ", "S", "i", "g", "n", "e", "d", "H", "e", "a", "d", "e", "r", "s", "=" >>
sSignatureEq     == << ",", " ", "S", "i", "g", "n", "a", "t", "u", "r", "e", "=" >>
sXAmzDate    == << "X", "-", "A", "m", "z", "-", "D", "a", "t", "e" >>
sHostKey     == << "H", "o", "s", "t" >>
sXAmzContentSha256 ==
  << "X", "-", "A", "m", "z", "-", "C", "o", "n", "t", "e", "n", "t", "-", "S", "h", "a", "2", "5", "6" >>
sAuthorization == << "A", "u", "t", "h", "o", "r", "i", "z", "a", "t", "i", "o", "n" >>
sContentTypeKey == << "C", "o", "n", "t", "e", "n", "t", "-", "T", "y", "p", "e" >>

\* getPayloadHash that hashes nothing when there is no body
getPayloadHash_NilUnhashed(req) ==
  IF req.Body.nil
  THEN [ hash |-> <<>>, err |-> FALSE, Body |-> req.Body ]
  ELSE LET r == ReadAll(req.Body)
       IN IF r.err
          THEN [ hash |-> sha256Hash(<<>>), err |-> TRUE, Body |-> r.rest ]
          ELSE [ hash |-> sha256Hash(Bytes(r.data)), err |-> FALSE, Body |-> NewBuffer(r.data) ]

\* getPayloadHash: the hash, whether the read failed, and the body the request
\* is left with
getPayloadHash(req) ==
  IF req.Body.nil
  THEN [ hash |-> sha256Hash(<<>>), err |-> FALSE, Body |-> req.Body ]
  ELSE LET r == ReadAll(req.Body)
       IN IF r.err
          THEN [ hash |-> sha256Hash(<<>>), err |-> TRUE, Body |-> r.rest ]
          ELSE [ hash |-> sha256Hash(Bytes(r.data)), err |-> FALSE, Body |-> NewBuffer(r.data) ]

\* createStringToSign
createStringToSign(algorithm, amzDate, credentialScope, canonicalRequest) ==
  Join(<< algorithm, amzDate, credentialScope, sha256Hash(Bytes(canonicalRequest)) >>, << "\n" >>)

\* a signing key kept from the first date signed for
deriveSigningKey_KeptKey(secretKey, dateStamp, region, service) ==
  hmacSHA256(hmacSHA256(hmacSHA256(hmacSHA256(Bytes(sAWS4 \o secretKey),
    Bytes(<< "2", "0", "2", "3", "0", "6", "1", "5" >>)), Bytes(region)), Bytes(service)), Bytes(sAws4Request))

\* the chain with the service before the region
deriveSigningKey_ServiceFirst(secretKey, dateStamp, region, service) ==
  hmacSHA256(hmacSHA256(hmacSHA256(hmacSHA256(Bytes(sAWS4 \o secretKey), Bytes(dateStamp)),
                                   Bytes(service)), Bytes(region)), Bytes(sAws4Request))

\* deriveSigningKey
deriveSigningKey(secretKey, dateStamp, region, service) ==
  LET kDate    == hmacSHA256(Bytes(sAWS4 \o secretKey), Bytes(dateStamp))
      kRegion  == hmacSHA256(kDate, Bytes(region))
      kService == hmacSHA256(kRegion, Bytes(service))
      kSigning == hmacSHA256(kService, Bytes(sAws4Request))
  IN kSigning

\* the credential scope with region and date swapped
CredentialScope_RegionFirst(dateStamp, region, service) ==
  Join(<< region, dateStamp, service, sAws4Request >>, << "/" >>)

\* the credential scope without the region
CredentialScope_NoRegion(dateStamp, region, service) ==
  Join(<< dateStamp, service, sAws4Request >>, << "/" >>)

\* fmt.Sprintf("%s/%s/%s/aws4_request", dateStamp, region, service)
CredentialScope(dateStamp, region, service) ==
  Join(<< dateStamp, region, service, sAws4Request >>, << "/" >>)

\* fmt.Sprintf("%s Credential=%s/%s, SignedHeaders=%s, Signature=%s", ...)
AuthHeader(algorithm, accessKey, credentialScope, signedHeaders, signature) ==
  algorithm \o sCredentialEq \o accessKey \o << "/" >> \o credentialScope
    \o sSignedHeadersEq \o signedHeaders \o sSignatureEq \o signature

\* the Host header set from the URL whatever the request held
SignPrepare_HostOverwritten(req, t) ==
  LET amzDate == FormatAmzDate(t)
      h1      == HeaderSet(req.Header, sXAmzDate, amzDate)
      h2      == HeaderSet(h1, sHostKey, req.URL.Host)
      ph      == getPayloadHash(req)
      h3      == HeaderSet(h2, sXAmzContentSha256, ph.hash)
  IN [ req |-> [ req EXCEPT !.Header = h3, !.Body = ph.Body ], payload |-> ph ]

\* signRequestWithTime up to the call of createCanonicalRequest: the request
\* with X-Amz-Date, Host and X-Amz-Content-Sha256 set and its body hashed
SignPrepare(req, t) ==
  LET amzDate == FormatAmzDate(t)
      h1      == HeaderSet(req.Header, sXAmzDate, amzDate)
      h2      == IF HeaderGet(h1, sHostKey) = <<>> THEN HeaderSet(h1, sHostKey, req.URL.Host) ELSE h1
      ph      == getPayloadHash(req)
      h3      == HeaderSet(h2, sXAmzContentSha256, ph.hash)
  IN [ req |-> [ req EXCEPT !.Header = h3, !.Body = ph.Body ], payload |-> ph ]

\* signRequestWithTime from the credential scope on: the request as the call
\* leaves it, with the values computed on the way; cr is what
\* createCanonicalRequest returned
SignAssemble(d, prep, t, cr) ==
  LET amzDate         == FormatAmzDate(t)
      dateStamp       == FormatDateStamp(t)
      credentialScope == CredentialScope(dateStamp, d.Region, sService)
      stringToSign    == createStringToSign(sAlgorithm, amzDate, credentialScope, cr[1])
      signingKey      == deriveSigningKey(d.SecretKey, dateStamp, d.Region, sService)
      signature       == HexEncode(hmacSHA256(signingKey, Bytes(stringToSign)))
      authHeader      == AuthHeader(sAlgorithm, d.AccessKey, credentialScope, cr[2], signature)
  IN [ req              |-> [ prep.req EXCEPT !.Header = HeaderSet(@, sAuthorization, authHeader) ],
       readErr          |-> prep.payload.err,
       payloadHash      |-> prep.payload.hash,
       canonicalRequest |-> cr[1],
       signedHeaders    |-> cr[2],
       stringToSign     |-> stringToSign,
       dateStamp        |-> dateStamp,
       amzDate          |-> amzDate,
       credentialScope  |-> credentialScope,
       signingKey       |-> signingKey,
       signature        |-> signature ]

\* signRequestWithTime from the call of createCanonicalRequest on
SignCanonical(d, prep, t, last) ==
  SignAssemble(d, prep, t, createCanonicalRequest(prep.req, prep.payload.hash, last))

\* signRequestWithTime; last is the iteration order of the header map in
\* getCanonicalHeaders
signRequestWithTime(d, req, t, last) == SignCanonical(d, SignPrepare(req, t), t, last)

(***************************************************************************)
(* The deployer.                                                           *)
(***************************************************************************)

sDefaultRegion == << "u", "s", "-", "e", "a", "s", "t", "-", "1" >>

\* the seconds of the Timeout of the client of a deployer
ClientTimeout == 30

\* no *http.Client
NoClient == [ exists |-> FALSE, Timeout |-> 0 ]

\* &http.Client{Timeout: 30 * time.Second}
NewClient == [ exists |-> TRUE, Timeout |-> ClientTimeout ]

\* the nil *AWSDeployer
NoDeployer ==
  [ exists |-> FALSE, AccessKey |-> <<>>, SecretKey |-> <<>>, Region |-> <<>>,
    AppName |-> <<>>, RepoURL |-> <<>>, Branch |-> <<>>, client |-> NoClient ]

\* NewAWSDeployer that leaves the client of the deployer unset
NewAWSDeployerResult_NilClient(environ, appName, repoURL, branch, region) ==
  LET accessKey == environ.AWS_ACCESS_KEY_ID
      secretKey == environ.AWS_SECRET_ACCESS_KEY
  IN IF accessKey = <<>> \/ secretKey = <<>>
     THEN [ d |-> NoDeployer, err |-> TRUE ]
     ELSE [ d |-> [ exists |-> TRUE, AccessKey |-> accessKey, SecretKey |-> secretKey,
                    Region |-> IF region = <<>> THEN sDefaultRegion ELSE region,
                    AppName |-> appName, RepoURL |-> repoURL, Branch |-> branch,
                    client |-> NoClient ],
            err |-> FALSE ]

\* NewAWSDeployer with the test of the secret key left out
NewAWSDeployerResult_NoSecretCheck(environ, appName, repoURL, branch, region) ==
  LET accessKey == environ.AWS_ACCESS_KEY_ID
      secretKey == environ.AWS_SECRET_ACCESS_KEY
  IN IF accessKey = <<>>
     THEN [ d |-> NoDeployer, err |-> TRUE ]
     ELSE [ d |-> [ exists |-> TRUE, AccessKey |-> accessKey, SecretKey |-> secretKey,
                    Region |-> IF region = <<>> THEN sDefaultRegion ELSE region,
                    AppName |-> appName, RepoURL |-> repoURL, Branch |-> branch,
                    client |-> NewClient ],
            err |-> FALSE ]

\* NewAWSDeployer: the deployer and whether an error is returned
NewAWSDeployerResult(environ, appName, repoURL, branch, region) ==
  LET accessKey == environ.AWS_ACCESS_KEY_ID
      secretKey == environ.AWS_SECRET_ACCESS_KEY
  IN IF accessKey = <<>> \/ secretKey = <<>>
     THEN [ d |-> NoDeployer, err |-> TRUE ]
     ELSE [ d |-> [ exists |-> TRUE, AccessKey |-> accessKey, SecretKey |-> secretKey,
                    Region |-> IF region = <<>> THEN sDefaultRegion ELSE region,
                    AppName |-> appName, RepoURL |-> repoURL, Branch |-> branch,
                    client |-> NewClient ],
            err |-> FALSE ]

(***************************************************************************)
(* Inputs of the model.                                                    *)
(***************************************************************************)

AccessKeyValues == { <<>>, << "A", "K", "I", "A" >> }
SecretKeyValues == { <<>>, << "w", "J", "a", "/", "K", "7" >> }
RegionValues    == { <<>>, << "e", "u", "-", "w", "e", "s", "t", "-", "1" >> }
sAppName == << "a", "p", "p" >>
sRepoURL == << "r", "e", "p", "o" >>
sBranch  == << "m", "a", "i", "n" >>

Times ==
  { [ year |-> 2023, month |-> 6, day |-> 15, hour |-> 23, min |-> 59, sec |-> 59 ],
    [ year |-> 2023, month |-> 6, day |-> 16, hour |-> 0, min |-> 0, sec |-> 0 ] }

ZeroTime == [ year |-> 1, month |-> 1, day |-> 1, hour |-> 0, min |-> 0, sec |-> 0 ]

sGET  == << "G", "E", "T" >>
sPOST == << "P", "O", "S", "T" >>
sApiHost  == << "a", "m", "p", "l", "i", "f", "y", ".", "a", "w", "s" >>
sAppsPath == << "/", "a", "p", "p", "s" >>
sJSONBody == << "{", "}" >>
sApplicationJSON == << "a", "p", "p", "l", "i", "c", "a", "t", "i", "o", "n", "/", "j", "s", "o", "n" >>

AppsURL == [ Host |-> sApiHost, Path |-> sAppsPath, RawQuery |-> <<>> ]

\* the requests the main specification builds: a GET without body, a POST
\* with a buffered body, a POST with a buffered body of no bytes, a POST whose
\* body reader fails after one byte
RequestInputs ==
  { [ Method |-> sGET,  URL |-> AppsURL, Body |-> NilBody ],
    [ Method |-> sPOST, URL |-> AppsURL, Body |-> NewBuffer(sJSONBody) ],
    [ Method |-> sPOST, URL |-> AppsURL, Body |-> NewBuffer(<<>>) ],
    [ Method |-> sPOST, URL |-> AppsURL, Body |-> FaultyReader(sJSONBody, 1) ] }

\* there is no request in the slot
NoRequest ==
  [ live |-> FALSE, Method |-> <<>>, URL |-> [ Host |-> <<>>, Path |-> <<>>, RawQuery |-> <<>> ],
    Header |-> EmptyHeader, Body |-> NilBody ]

\* http.NewRequestWithContext for a URL that parses: no header, the body given
NewRequest(method, url, body) ==
  [ live |-> TRUE, Method |-> method, URL |-> url, Header |-> EmptyHeader, Body |-> body ]

\* nothing has been computed for the request in the slot
NoResult ==
  [ op |-> "none", t |-> ZeroTime, d |-> NoDeployer, pre |-> NoRequest, readErr |-> FALSE,
    payloadHash |-> <<>>, canonicalRequest |-> <<>>, canonicalHeaders |-> <<>>,
    canonicalQuery |-> <<>>, signedHeaders |-> <<>>, signature |-> <<>>,
    keyDate |-> <<>>, service |-> <<>>, credentialScope |-> <<>>, signingKey |-> <<>>,
    events |-> <<>>, ret |-> "", pc |-> "", stringToSign |-> <<>>, first |-> NoRequest ]

(***************************************************************************)
(* The Normalizer (internal/normalize/rules.go).  A rule is named by its   *)
(* Description; the change a rule's Apply makes to the working tree is     *)
(* named by the rule.                                                      *)
(***************************************************************************)

universalRules ==
  << "Pin Node version to 20", "Add .env.example template",
     "Update .gitignore with standard entries", "Add deployment workflow" >>

viteRules == << "Add production Dockerfile for Vite", "Add nginx.conf for SPA routing" >>

nextjsRules == << "Add production Dockerfile for Next.js" >>

Frameworks == { "Vite", "NextJS", "Unknown" }

\* New(root, fw, dryRun): n.Rules
RulesOf(fw) ==
  universalRules \o (IF fw = "Vite" THEN viteRules ELSE IF fw = "NextJS" THEN nextjsRules ELSE <<>>)

\* fmt.Sprintf("[mvpbridge] %s", message)
CommitMessage(description) == << "[mvpbridge] ", description >>

\* a change in the working tree that no rule made
UserChange == "uncommitted work"

\* no Normalizer runs
NoRun ==
  [ pc |-> "idle", fw |-> "Unknown", DryRun |-> FALSE, i |-> 0, applied |-> {},
    tree |-> {}, index |-> {}, commits |-> <<>>, err |-> FALSE ]

(***************************************************************************)
(* The command mvpbridge deploy (cmd/mvpbridge/main.go) and the            *)
(* configuration it loads (internal/config).                               *)
(***************************************************************************)

\* the target argument of the command, and the target of a configuration
\* file, which config.Load does not validate
Targets == { "", "do", "aws", "heroku" }

\* the configurations config.Load can return
Configs == [ Target : Targets, Framework : { "vite", "nextjs" }, AppName : { "", "shop" } ]

\* config.Load returned an error
NoConfig == [ Target |-> "", Framework |-> "", AppName |-> "" ]

\* the command has not been given
NoCommand == [ pc |-> "idle", target |-> "", cfg |-> NoConfig, call |-> "none", err |-> "" ]

\* the target runDeploy switches on: the configured target, or do when none
\* is configured, takes the place of an argument that is empty or do
EffectiveTarget(target, cfg) ==
  IF target = "" \/ target = "do"
  THEN (IF cfg.Target = "" THEN "do" ELSE cfg.Target)
  ELSE target

(***************************************************************************)
(* AWS Amplify as AWSDeployer.Deploy sees it.                              *)
(***************************************************************************)

\* no app exists
NoService == [ apps |-> {}, branches |-> {} ]

\* Deploy has not been called: the position in Deploy, the number of the
\* call, the functions called in order, what the listing of getApp gave
\* (absent, found, failed), what the fetch of the listed app gave (ok,
\* failed), the app found, the error of the lookup, what Deploy returned
\* (ok, error) and the app it returned
NoDeploy ==
  [ pc |-> "idle", n |-> 0, calls |-> <<>>, listed |-> "", fetched |-> "", existing |-> 0,
    err |-> <<>>, ret |-> "", app |-> 0 ]

(***************************************************************************)
(* State.                                                                  *)
(***************************************************************************)

VARIABLES
  env,       \* the process environment: AWS_ACCESS_KEY_ID, AWS_SECRET_ACCESS_KEY
  deployer,  \* the *AWSDeployer the last NewAWSDeployer returned
  newCall,   \* the last call of NewAWSDeployer: its region argument and its error
  reqs,      \* the *http.Request objects, by slot
  log,       \* by slot: the last function applied to the request, its input and results
  norm,      \* the run of the Normalizer and the git repository it works in
  cmd,       \* the command mvpbridge deploy: its argument, the configuration, the dispatch
  amplify,   \* AWS Amplify: the apps that exist and their branches
  run        \* the calls of AWSDeployer.Deploy: the position of the call under way, the calls made

vars == << env, deployer, newCall, reqs, log, norm, cmd, amplify, run >>

Slots == DOMAIN reqs

NoCall == [ called |-> FALSE, region |-> <<>>, err |-> FALSE ]

InitWith(slots) ==
  /\ env \in [ AWS_ACCESS_KEY_ID : AccessKeyValues, AWS_SECRET_ACCESS_KEY : SecretKeyValues ]
  /\ deployer = NoDeployer
  /\ newCall = NoCall
  /\ reqs = [ i \in slots |-> NoRequest ]
  /\ log = [ i \in slots |-> NoResult ]
  /\ norm = NoRun
  /\ cmd = NoCommand
  /\ amplify = NoService
  /\ run = NoDeploy

\* the program handles one request at a time
Init == InitWith({ 1 })

\* NewAWSDeployer(appName, repoURL, branch, region), called once in a run
NewAWSDeployer(region) ==
  LET r == NewAWSDeployerResult(env, sAppName, sRepoURL, sBranch, region)
  IN /\ ~newCall.called
     /\ deployer' = r.d
     /\ newCall' = [ called |-> TRUE, region |-> region, err |-> r.err ]
     /\ UNCHANGED << env, reqs, log, norm, cmd, amplify, run >>

\* http.NewRequestWithContext(ctx, method, endpoint, body) into slot i
CreateRequest(i, in) ==
  /\ reqs' = [ reqs EXCEPT ![i] = NewRequest(in.Method, in.URL, in.Body) ]
  /\ log' = [ log EXCEPT ![i] = NoResult ]
  /\ UNCHANGED << env, deployer, newCall, norm, cmd, amplify, run >>

\* req.Header.Set(key, value) by the caller, before signing
SetHeader(i, key, value) ==
  /\ reqs[i].live
  /\ log[i].op = "none"
  /\ reqs' = [ reqs EXCEPT ![i].Header = HeaderSet(@, key, value) ]
  /\ UNCHANGED << env, deployer, newCall, log, norm, cmd, amplify, run >>

\* req.Header[key] = values by the caller, before signing: the key is stored as written
AssignHeader(i, key, values) ==
  /\ reqs[i].live
  /\ log[i].op = "none"
  /\ reqs' = [ reqs EXCEPT ![i].Header = HeaderAssign(@, key, values) ]
  /\ UNCHANGED << env, deployer, newCall, log, norm, cmd, amplify, run >>

\* what the log keeps of a call of signRequestWithTime
SignResult(d, pre, t, r) ==
  [ NoResult EXCEPT !.op = "sign", !.t = t, !.d = d, !.pre = pre,
                    !.readErr = r.readErr, !.payloadHash = r.payloadHash,
                    !.canonicalRequest = r.canonicalRequest,
                    !.signedHeaders = r.signedHeaders, !.signature = r.signature,
                    !.stringToSign = r.stringToSign,
                    !.keyDate = r.dateStamp, !.service = sService,
                    !.credentialScope = r.credentialScope,
                    !.signingKey = r.signingKey ]

\* the results signRequestWithTime can have, one for every iteration order of
\* the header map
SignOutcomes(d, req, t) ==
  { signRequestWithTime(d, req, t, last) : last \in IterationOrders(SignPrepare(req, t).req.Header) }

\* d.signRequestWithTime(req, t) on the request of slot i
SignRequestWithTime(i, t) ==
  /\ deployer.exists
  /\ reqs[i].live
  /\ \E r \in SignOutcomes(deployer, reqs[i], t) :
       /\ reqs' = [ reqs EXCEPT ![i] = r.req ]
       /\ log' = [ log EXCEPT ![i] = [ SignResult(deployer, reqs[i], t, r) EXCEPT
                                        !.first = IF log[i].op = "sign" THEN log[i].first ELSE reqs[i] ] ]
  /\ UNCHANGED << env, deployer, newCall, norm, cmd, amplify, run >>

sLowerHost == << "h", "o", "s", "t" >>
sOtherHost == << "e", "v", "i", "l" >>

Next ==
  \/ \E region \in RegionValues : NewAWSDeployer(region)
  \/ \E i \in Slots, in \in RequestInputs : CreateRequest(i, in)
  \/ \E i \in Slots : SetHeader(i, sContentTypeKey, sApplicationJSON)
  \/ \E i \in Slots : SetHeader(i, sHostKey, sOtherHost)
  \/ \E i \in Slots : AssignHeader(i, sLowerHost, << sOtherHost >>)
  \/ \E i \in Slots, t \in Times : SignRequestWithTime(i, t)

Spec == Init /\ [][Next]_vars

(***************************************************************************)
(* Two requests of identical content signed by one deployer.               *)
(***************************************************************************)

\* the header maps of the requests that are signed in pairs
PairHeaders ==
  { EmptyHeader,
    HeaderSet(EmptyHeader, sContentTypeKey, sApplicationJSON),
    HeaderAssign(EmptyHeader, sLowerHost, << sOtherHost >>) }

PairContents ==
  { [ NewRequest(in.Method, in.URL, in.Body) EXCEPT !.Header = h ] :
      in \in RequestInputs, h \in PairHeaders }

\* a deployer has been constructed and two requests of the same content exist
InitPair ==
  /\ env \in [ AWS_ACCESS_KEY_ID : AccessKeyValues \ { <<>> },
               AWS_SECRET_ACCESS_KEY : SecretKeyValues \ { <<>> } ]
  /\ \E region \in RegionValues :
       /\ deployer = NewAWSDeployerResult(env, sAppName, sRepoURL, sBranch, region).d
       /\ newCall = [ called |-> TRUE, region |-> region, err |-> FALSE ]
  /\ \E c \in PairContents : reqs = [ i \in { 1, 2 } |-> c ]
  /\ log = [ i \in { 1, 2 } |-> NoResult ]
  /\ norm = NoRun
  /\ cmd = NoCommand
  /\ amplify = NoService
  /\ run = NoDeploy

\* each of the two requests is signed once
SignOnce(i, t) == log[i].op = "none" /\ SignRequestWithTime(i, t)

NextPair == \E i \in Slots, t \in Times : SignOnce(i, t)

SpecPair == InitPair /\ [][NextPair]_vars

\* the first request is signed any number of times, its copy once
SignAgain(i, t) == (i = 1 \/ log[i].op = "none") /\ SignRequestWithTime(i, t)

NextResign == \E i \in Slots, t \in Times : SignAgain(i, t)

SpecResign == InitPair /\ [][NextResign]_vars

(***************************************************************************)
(* One request signed for several regions; keys derived for several        *)
(* services.                                                               *)
(***************************************************************************)

sIam == << "i", "a", "m" >>

KeyServices == { sService, sIam }

\* NewAWSDeployer(appName, repoURL, branch, region) called once more
NewAWSDeployerAgain(region) ==
  LET r == NewAWSDeployerResult(env, sAppName, sRepoURL, sBranch, region)
  IN /\ newCall.called
     /\ deployer' = r.d
     /\ newCall' = [ called |-> TRUE, region |-> region, err |-> r.err ]
     /\ UNCHANGED << env, reqs, log, norm, cmd, amplify, run >>

\* what the log keeps of a call of deriveSigningKey: its four arguments and the key
KeyResult(secretKey, dateStamp, region, service, key) ==
  [ NoResult EXCEPT !.op = "key", !.d = [ NoDeployer EXCEPT !.SecretKey = secretKey, !.Region = region ],
                    !.keyDate = dateStamp, !.service = service, !.signingKey = key ]

\* d.deriveSigningKey(secretKey, dateStamp, region, service), the result kept in slot i
DeriveSigningKey(i, secretKey, dateStamp, region, service) ==
  /\ deployer.exists
  /\ log' = [ log EXCEPT ![i] =
                KeyResult(secretKey, dateStamp, region, service,
                          deriveSigningKey(secretKey, dateStamp, region, service)) ]
  /\ UNCHANGED << env, deployer, newCall, reqs, norm, cmd, amplify, run >>

\* a deployer has been constructed and two requests of the same content exist
InitRegions ==
  /\ env \in [ AWS_ACCESS_KEY_ID : AccessKeyValues \ { <<>> },
               AWS_SECRET_ACCESS_KEY : SecretKeyValues \ { <<>> } ]
  /\ \E region \in RegionValues :
       /\ deployer = NewAWSDeployerResult(env, sAppName, sRepoURL, sBranch, region).d
       /\ newCall = [ called |-> TRUE, region |-> region, err |-> FALSE ]
  /\ \E in \in RequestInputs : reqs = [ i \in { 1, 2 } |-> NewRequest(in.Method, in.URL, in.Body) ]
  /\ log = [ i \in { 1, 2 } |-> NoResult ]
  /\ norm = NoRun
  /\ cmd = NoCommand
  /\ amplify = NoService
  /\ run = NoDeploy

NextRegions ==
  \/ \E i \in Slots, t \in Times : SignOnce(i, t)
  \/ \E region \in RegionValues : NewAWSDeployerAgain(region)
  \/ \E i \in Slots, t \in Times, service \in KeyServices :
       /\ log[i].op = "none"
       /\ DeriveSigningKey(i, deployer.SecretKey, FormatDateStamp(t), deployer.Region, service)

SpecRegions == InitRegions /\ [][NextRegions]_vars

\* the arguments of deriveSigningKey in TestDeriveSigningKey, and others
sReferenceSecret ==
  << "w", "J", "a", "l", "r", "X", "U", "t", "n", "F", "E", "M", "I", "/", "K", "7", "M", "D", "E", "N", "G", "+", "b", "P", "x", "R", "f", "i", "C", "Y", "E", "X", "A", "M", "P", "L", "E", "K", "E", "Y" >>
sReferenceDate == << "2", "0", "1", "5", "0", "8", "3", "0" >>
KeySecrets == { sReferenceSecret } \cup (SecretKeyValues \ { <<>> })
KeyDates   == { sReferenceDate } \cup { FormatDateStamp(t) : t \in Times }
KeyRegions == { sDefaultRegion } \cup (RegionValues \ { <<>> })

\* a deployer, and no key derived
InitKey ==
  /\ env \in [ AWS_ACCESS_KEY_ID : AccessKeyValues \ { <<>> },
               AWS_SECRET_ACCESS_KEY : SecretKeyValues \ { <<>> } ]
  /\ \E region \in RegionValues :
       /\ deployer = NewAWSDeployerResult(env, sAppName, sRepoURL, sBranch, region).d
       /\ newCall = [ called |-> TRUE, region |-> region, err |-> FALSE ]
  /\ reqs = [ i \in { 1, 2 } |-> NoRequest ]
  /\ log = [ i \in { 1, 2 } |-> NoResult ]
  /\ norm = NoRun
  /\ cmd = NoCommand
  /\ amplify = NoService
  /\ run = NoDeploy

NextKey ==
  \E i \in Slots, secretKey \in KeySecrets, dateStamp \in KeyDates, region \in KeyRegions,
     service \in KeyServices :
    DeriveSigningKey(i, secretKey, dateStamp, region, service)

SpecKey == InitKey /\ [][NextKey]_vars

(***************************************************************************)
(* Calls of signRequestWithTime on distinct requests, interleaved.  The    *)
(* position of a call is log[i].op: none, dated, hashed, canonical, sign.  *)
(***************************************************************************)

\* the locals of every call in one frame
FrameOf_Shared(i) == 1

\* the locals of the call on request i (amzDate, payloadHash,
\* canonicalRequest, signedHeaders) are in the frame of that call
FrameOf(i) == i

\* req.Header.Set("X-Amz-Date", amzDate) and, without a Host header,
\* req.Header.Set("Host", req.URL.Host)
StepDate(i, t) ==
  /\ deployer.exists
  /\ reqs[i].live
  /\ log[i].op = "none"
  /\ \E h \in { HeaderSet(reqs[i].Header, sXAmzDate, FormatAmzDate(t)) } :
       reqs' = [ reqs EXCEPT ![i].Header =
                   IF HeaderGet(h, sHostKey) = <<>> THEN HeaderSet(h, sHostKey, reqs[i].URL.Host) ELSE h ]
  /\ log' = [ log EXCEPT ![i].op = "dated", ![i].pre = reqs[i], ![i].d = deployer, ![FrameOf(i)].t = t ]
  /\ UNCHANGED << env, deployer, newCall, norm, cmd, amplify, run >>

\* payloadHash := d.getPayloadHash(req); req.Header.Set("X-Amz-Content-Sha256", payloadHash)
StepPayload(i) ==
  /\ log[i].op = "dated"
  /\ \E ph \in { getPayloadHash(reqs[i]) } :
       /\ reqs' = [ reqs EXCEPT ![i].Body = ph.Body,
                                ![i].Header = HeaderSet(@, sXAmzContentSha256, ph.hash) ]
       /\ log' = [ log EXCEPT ![i].op = "hashed",
                              ![FrameOf(i)].payloadHash = ph.hash, ![FrameOf(i)].readErr = ph.err ]
  /\ UNCHANGED << env, deployer, newCall, norm, cmd, amplify, run >>

\* canonicalRequest, signedHeaders := d.createCanonicalRequest(req, payloadHash)
StepCanonical(i) ==
  /\ log[i].op = "hashed"
  /\ \E last \in IterationOrders(reqs[i].Header) :
       \E cr \in { createCanonicalRequest(reqs[i], log[FrameOf(i)].payloadHash, last) } :
         log' = [ log EXCEPT ![i].op = "canonical",
                             ![FrameOf(i)].canonicalRequest = cr[1], ![FrameOf(i)].signedHeaders = cr[2] ]
  /\ UNCHANGED << env, deployer, newCall, reqs, norm, cmd, amplify, run >>

\* the request and the locals of the call on request i, as SignAssemble takes them
FramePrep(req, f) == [ req |-> req, payload |-> [ hash |-> f.payloadHash, err |-> f.readErr ] ]

\* the scope, the string to sign, the key, the signature and
\* req.Header.Set("Authorization", authHeader)
StepAuthorize(i) ==
  /\ log[i].op = "canonical"
  /\ \E f \in { log[FrameOf(i)] } :
       \E r \in { SignAssemble(deployer, FramePrep(reqs[i], f), f.t, << f.canonicalRequest, f.signedHeaders >>) } :
         /\ reqs' = [ reqs EXCEPT ![i] = r.req ]
         /\ log' = [ log EXCEPT ![i] = SignResult(log[i].d, log[i].pre, f.t, r) ]
  /\ UNCHANGED << env, deployer, newCall, norm, cmd, amplify, run >>

\* one deployer and two requests
InitConc ==
  /\ env \in [ AWS_ACCESS_KEY_ID : AccessKeyValues \ { <<>> },
               AWS_SECRET_ACCESS_KEY : SecretKeyValues \ { <<>> } ]
  /\ deployer = NewAWSDeployerResult(env, sAppName, sRepoURL, sBranch, <<>>).d
  /\ newCall = [ called |-> TRUE, region |-> <<>>, err |-> FALSE ]
  /\ reqs \in [ { 1, 2 } -> { NewRequest(in.Method, in.URL, in.Body) : in \in RequestInputs } ]
  /\ log = [ i \in { 1, 2 } |-> NoResult ]
  /\ norm = NoRun
  /\ cmd = NoCommand
  /\ amplify = NoService
  /\ run = NoDeploy

NextConc ==
  \/ \E i \in Slots, t \in Times : StepDate(i, t)
  \/ \E i \in Slots : StepPayload(i)
  \/ \E i \in Slots : StepCanonical(i)
  \/ \E i \in Slots : StepAuthorize(i)

SpecConc == InitConc /\ [][NextConc]_vars

(***************************************************************************)
(* The operations of the deployer that build a request: getApp,            *)
(* getAppByID, createApp, updateApp, createBranch.  An operation runs in   *)
(* steps: the request is built, signed, sent and answered.  log[i] keeps   *)
(* the operation under way (op), its position (pc: built, signed, done),   *)
(* the calls made in order (events) and the error returned (ret, "" for    *)
(* none).  The JSON text of a request body is abbreviated to {}.           *)
(***************************************************************************)

sScheme     == << "h", "t", "t", "p", "s", ":", "/", "/" >>
sAmplifyDot == << "a", "m", "p", "l", "i", "f", "y", "." >>
sAmazonaws  == << ".", "a", "m", "a", "z", "o", "n", "a", "w", "s", ".", "c", "o", "m" >>
sBranches   == << "/", "b", "r", "a", "n", "c", "h", "e", "s" >>

\* fmt.Sprintf(awsAmplifyAPIBase, d.Region) + path
Endpoint(region, path) == sScheme \o sAmplifyDot \o region \o sAmazonaws \o path

\* url.shouldEscape(c, encodeHost) is false: c may stand in a host name
HostCharOK(c) ==
  \/ IsUpperChar(c) \/ IsLowerChar(c) \/ IsDigitChar(c)
  \/ c \in { "-", "_", ".", "~", "!", "$", "&", "'", "(", ")", "*", "+", ",", ";", "=", ":",
             "[", "]", "<", ">", "\"" }

\* url.unescape finds a % that is not followed by two hex digits
BadEscape(s) ==
  \E k \in 1..Len(s) : s[k] = "%" /\ (k + 2 > Len(s) \/ ~IsHexChar(s[k + 1]) \/ ~IsHexChar(s[k + 2]))

\* url.Parse of an absolute URL without user information: the fragment and
\* the query are cut off, the authority runs to the first slash, a port is
\* decimal, a host byte must be allowed and a host escape must be %25, a path
\* escape must be well formed.  The path is kept as written when it has no
\* escape.
urlParse(rawURL) ==
  LET noFrag    == Cut(rawURL, "#").before
      q         == Cut(noFrag, "?")
      rest      == SubSeq(q.before, Len(sScheme) + 1, Len(q.before))
      a         == Cut(rest, "/")
      authority == a.before
      path      == IF Len(authority) = Len(rest) THEN <<>> ELSE << "/" >> \o a.after
      colons    == { k \in 1..Len(authority) : authority[k] = ":" }
      port      == IF colons = {} THEN <<>>
                   ELSE SubSeq(authority, (CHOOSE k \in colons : \A j \in colons : j <= k) + 1, Len(authority))
      hostErr   == \/ \E k \in 1..Len(port) : ~IsDigitChar(port[k])
                   \/ \E k \in 1..Len(authority) : authority[k] # "%" /\ ~HostCharOK(authority[k])
                   \/ \E k \in 1..Len(authority) :
                        authority[k] = "%" /\ SubSeq(authority, k, k + 2) # << "%", "2", "5" >>
  IN [ err |-> hostErr \/ BadEscape(path) \/ BadEscape(Cut(rawURL, "#").after),
       URL |-> [ Host |-> authority, Path |-> path, RawQuery |-> q.after ] ]

\* http.NewRequestWithContext that goes on with a URL that did not parse
BuildRequest_IgnoreError(method, endpoint, body) ==
  CHOOSE b \in { [ err |-> FALSE, req |-> NewRequest(method, u.URL, body) ] : u \in { urlParse(endpoint) } } : TRUE

\* http.NewRequestWithContext(context.Background(), method, endpoint, body)
BuildRequest(method, endpoint, body) ==
  CHOOSE b \in { IF u.err THEN [ err |-> TRUE, req |-> NoRequest ]
                 ELSE [ err |-> FALSE, req |-> NewRequest(method, u.URL, body) ] :
                 u \in { urlParse(endpoint) } } : TRUE

\* the regions a deployer of this part is made for: the default, eu-west-1,
\* and one with a space
sBadRegion == << "e", "u", " ", "w", "e", "s", "t" >>
OpsRegions == RegionValues \cup { sBadRegion }

\* app ids, as an argument or in an answer of the service: one is not a
\* well-formed path segment
sAppID    == << "d", "1" >>
sBadAppID == << "%", "z", "z" >>
AppIDs == { sAppID, sBadAppID }

\* what d.client.Do and the reading of the answer can give: a transport
\* error, a status outside 2xx, an answer without an app, an answer with one
Responses ==
  { [ err |-> "send", appID |-> <<>> ], [ err |-> "status", appID |-> <<>> ],
    [ err |-> "", appID |-> <<>> ] } \cup { [ err |-> "", appID |-> id ] : id \in AppIDs }

\* GITHUB_TOKEN in the environment of createApp
TokenValues == { <<>>, << "g", "h", "p" >> }

\* call number n of the operation op: a request built or not, signed, sent
Ev(op, n, ev, url) == [ op |-> op, n |-> n, ev |-> ev, url |-> url ]

\* the number of the request an operation is about to build
NextN(events) == Cardinality({ k \in DOMAIN events : events[k].ev \in { "built", "build failed" } }) + 1

\* req, err := http.NewRequestWithContext(...) in operation op, and
\* return nil, err when it failed
Build(i, op, method, url, body, events) ==
  \E b \in { BuildRequest(method, url, body) }, n \in { NextN(events) } :
    /\ reqs' = [ reqs EXCEPT ![i] = b.req ]
    /\ log' = [ log EXCEPT ![i] =
                  [ NoResult EXCEPT !.op = op, !.d = deployer,
                                    !.events = events \o << Ev(op, n, IF b.err THEN "build failed" ELSE "built", url) >>,
                                    !.ret = IF b.err THEN "build" ELSE "",
                                    !.pc = IF b.err THEN "done" ELSE "built" ] ]

\* the deployer exists and no operation has been called on slot i
Idle(i) == deployer.exists /\ log[i].op = "none"

getApp(i) ==
  /\ Idle(i)
  /\ Build(i, "getApp", sGET, Endpoint(deployer.Region, sAppsPath), NilBody, <<>>)
  /\ UNCHANGED << env, deployer, newCall, norm, cmd, amplify, run >>

getAppByID(i, appID) ==
  /\ Idle(i)
  /\ Build(i, "getAppByID", sGET, Endpoint(deployer.Region, sAppsPath \o << "/" >> \o appID), NilBody, <<>>)
  /\ UNCHANGED << env, deployer, newCall, norm, cmd, amplify, run >>

\* without GITHUB_TOKEN nothing is built
createApp(i, githubToken) ==
  /\ Idle(i)
  /\ IF githubToken = <<>>
     THEN /\ log' = [ log EXCEPT ![i] = [ NoResult EXCEPT !.op = "createApp", !.d = deployer,
                                                          !.ret = "token", !.pc = "done" ] ]
          /\ UNCHANGED reqs
     ELSE Build(i, "createApp", sPOST, Endpoint(deployer.Region, sAppsPath), NewBuffer(sJSONBody), <<>>)
  /\ UNCHANGED << env, deployer, newCall, norm, cmd, amplify, run >>

updateApp(i, appID) ==
  /\ Idle(i)
  /\ Build(i, "updateApp", sPOST, Endpoint(deployer.Region, sAppsPath \o << "/" >> \o appID),
           NewBuffer(sJSONBody), <<>>)
  /\ UNCHANGED << env, deployer, newCall, norm, cmd, amplify, run >>

\* the request of createBranch for an app id, after the calls in events
BuildBranch(i, appID, events) ==
  Build(i, "createBranch", sPOST, Endpoint(deployer.Region, sAppsPath \o << "/" >> \o appID \o sBranches),
        NewBuffer(sJSONBody), events)

createBranch(i, appID) ==
  /\ Idle(i)
  /\ BuildBranch(i, appID, <<>>)
  /\ UNCHANGED << env, deployer, newCall, norm, cmd, amplify, run >>

\* Content-Type: application/json on a request
WithContentType(req) == [ req EXCEPT !.Header = HeaderSet(@, sContentTypeKey, sApplicationJSON) ]

\* d.signRequest(req), which signs for the time of the call, and
\* req.Header.Set("Content-Type", "application/json"): before the signing in
\* createBranch, after it in getApp and doRequest
SignRequest(i, t) ==
  /\ log[i].pc = "built"
  /\ \E first \in { log[i].op = "createBranch" } :
       \E r \in SignOutcomes(deployer, IF first THEN WithContentType(reqs[i]) ELSE reqs[i], t) :
         reqs' = [ reqs EXCEPT ![i] = IF first THEN r.req ELSE WithContentType(r.req) ]
  /\ log' = [ log EXCEPT ![i].pc = "signed",
                         ![i].events = @ \o << Ev(log[i].op, NextN(@) - 1, "signRequest", <<>>) >> ]
  /\ UNCHANGED << env, deployer, newCall, norm, cmd, amplify, run >>

\* d.client.Do(req), which reads the body to its end, and the rest of the
\* operation: an error or a bad status is returned; getApp fetches the app
\* it found by its id, createApp creates the branch of the app it made
ClientDo(i, resp) ==
  /\ log[i].pc = "signed"
  /\ \E sent \in { log[i].events \o << Ev(log[i].op, NextN(log[i].events) - 1, "client.Do", <<>>) >> } :
       IF resp.err = "" /\ log[i].op = "getApp" /\ resp.appID # <<>>
       THEN Build(i, "getAppByID", sGET, Endpoint(deployer.Region, sAppsPath \o << "/" >> \o resp.appID),
                  NilBody, sent)
       ELSE IF resp.err = "" /\ log[i].op = "createApp"
       THEN BuildBranch(i, resp.appID, sent)
       ELSE /\ reqs' = [ reqs EXCEPT ![i].Body = ReadAll(@).rest ]
            /\ log' = [ log EXCEPT ![i].pc = "done", ![i].events = sent,
                                   ![i].ret = IF resp.err = "" /\ log[i].op = "getApp"
                                              THEN "not found" ELSE resp.err ]
  /\ UNCHANGED << env, deployer, newCall, norm, cmd, amplify, run >>

InitOps ==
  /\ env \in [ AWS_ACCESS_KEY_ID : AccessKeyValues \ { <<>> },
               AWS_SECRET_ACCESS_KEY : SecretKeyValues \ { <<>> } ]
  /\ \E region \in OpsRegions :
       /\ deployer = NewAWSDeployerResult(env, sAppName, sRepoURL, sBranch, region).d
       /\ newCall = [ called |-> TRUE, region |-> region, err |-> FALSE ]
  /\ reqs = [ i \in { 1 } |-> NoRequest ]
  /\ log = [ i \in { 1 } |-> NoResult ]
  /\ norm = NoRun
  /\ cmd = NoCommand
  /\ amplify = NoService
  /\ run = NoDeploy

NextOps ==
  \/ \E i \in Slots : getApp(i)
  \/ \E i \in Slots, appID \in AppIDs : getAppByID(i, appID)
  \/ \E i \in Slots, githubToken \in TokenValues : createApp(i, githubToken)
  \/ \E i \in Slots, appID \in AppIDs : updateApp(i, appID)
  \/ \E i \in Slots, appID \in AppIDs : createBranch(i, appID)
  \/ \E i \in Slots, t \in Times : SignRequest(i, t)
  \/ \E i \in Slots, resp \in Responses : ClientDo(i, resp)

SpecOps == InitOps /\ [][NextOps]_vars

(***************************************************************************)
(* Normalizer.Run, step by step.  norm.i is the index of the rule of the   *)
(* loop, norm.pc the position in its body: check, apply, add, commit, and  *)
(* done after the return.  tree holds the changes of the working tree that *)
(* are not staged, index the staged ones, commits the commits made.        *)
(***************************************************************************)

\* the rule of the iteration
rule == RulesOf(norm.fw)[norm.i]

\* the loop goes on with the next rule
Continue(n) == [ n EXCEPT !.pc = "check", !.i = @ + 1 ]

\* rule.Check(n.Root): the rule is satisfied already, or is to be applied
RuleCheck(satisfied) ==
  /\ norm.pc = "check"
  /\ norm.i <= Len(RulesOf(norm.fw))
  /\ norm' = IF satisfied THEN Continue(norm) ELSE [ norm EXCEPT !.pc = "apply" ]
  /\ UNCHANGED << env, deployer, newCall, reqs, log, cmd, amplify, run >>

\* rule.Apply that writes in a dry run as in any other run
RuleApply_WritesInDryRun(ok) ==
  /\ norm.pc = "apply"
  /\ norm' = IF ~ok THEN [ norm EXCEPT !.pc = "done", !.err = TRUE ]
             ELSE IF norm.DryRun
             THEN Continue([ norm EXCEPT !.applied = @ \cup { rule }, !.tree = @ \cup { rule } ])
             ELSE [ norm EXCEPT !.pc = "add", !.applied = @ \cup { rule }, !.tree = @ \cup { rule } ]
  /\ UNCHANGED << env, deployer, newCall, reqs, log, cmd, amplify, run >>

\* rule.Apply(n.Root, n.DryRun): in a dry run every Apply returns nil before
\* it writes, and Run commits nothing; otherwise the write succeeds or its
\* error ends the run
RuleApply(ok) ==
  /\ norm.pc = "apply"
  /\ norm' = IF norm.DryRun THEN Continue([ norm EXCEPT !.applied = @ \cup { rule } ])
             ELSE IF ~ok THEN [ norm EXCEPT !.pc = "done", !.err = TRUE ]
             ELSE [ norm EXCEPT !.pc = "add", !.applied = @ \cup { rule }, !.tree = @ \cup { rule } ]
  /\ UNCHANGED << env, deployer, newCall, reqs, log, cmd, amplify, run >>

\* gitCommit: git add -A stages every change of the working tree; when it
\* fails gitCommit returns the error, Run prints it and goes on
GitAdd(ok) ==
  /\ norm.pc = "add"
  /\ norm' = IF ok THEN [ norm EXCEPT !.pc = "commit", !.index = @ \cup norm.tree, !.tree = {} ]
             ELSE Continue(norm)
  /\ UNCHANGED << env, deployer, newCall, reqs, log, cmd, amplify, run >>

\* gitCommit: git commit -m "[mvpbridge] <Description>" commits what is
\* staged; when it fails Run prints the error and goes on
GitCommit(ok) ==
  /\ norm.pc = "commit"
  /\ norm' = IF ok
             THEN Continue([ norm EXCEPT !.index = {},
                                         !.commits = Append(@, [ message |-> CommitMessage(rule),
                                                                 changes |-> norm.index ]) ])
             ELSE Continue(norm)
  /\ UNCHANGED << env, deployer, newCall, reqs, log, cmd, amplify, run >>

\* the loop is over: return nil
RunReturn ==
  /\ norm.pc = "check"
  /\ norm.i > Len(RulesOf(norm.fw))
  /\ norm' = [ norm EXCEPT !.pc = "done" ]
  /\ UNCHANGED << env, deployer, newCall, reqs, log, cmd, amplify, run >>

\* New(root, fw, dryRun) and the call of Run, in a repository that is clean
\* or holds uncommitted work
InitNorm ==
  /\ env \in [ AWS_ACCESS_KEY_ID : { <<>> }, AWS_SECRET_ACCESS_KEY : { <<>> } ]
  /\ deployer = NoDeployer
  /\ newCall = NoCall
  /\ reqs = [ i \in { 1 } |-> NoRequest ]
  /\ log = [ i \in { 1 } |-> NoResult ]
  /\ \E fw \in Frameworks, dryRun \in BOOLEAN, dirty \in BOOLEAN :
       norm = [ NoRun EXCEPT !.pc = "check", !.fw = fw, !.DryRun = dryRun, !.i = 1,
                             !.tree = IF dirty THEN { UserChange } ELSE {} ]
  /\ cmd = NoCommand
  /\ amplify = NoService
  /\ run = NoDeploy

NextNorm ==
  \/ \E satisfied \in BOOLEAN : RuleCheck(satisfied)
  \/ \E ok \in BOOLEAN : RuleApply(ok)
  \/ \E ok \in BOOLEAN : GitAdd(ok)
  \/ \E ok \in BOOLEAN : GitCommit(ok)
  \/ RunReturn

SpecNorm == InitNorm /\ [][NextNorm]_vars

(***************************************************************************)
(* runDeploy(target), step by step: the configuration is loaded, then the  *)
(* target is chosen and the deploy function called.                        *)
(***************************************************************************)

\* cfg, err := config.Load("."); an error is returned at once
LoadConfig(ok, cfg) ==
  /\ cmd.pc = "start"
  /\ cmd' = IF ok THEN [ cmd EXCEPT !.pc = "loaded", !.cfg = cfg ]
            ELSE [ cmd EXCEPT !.pc = "done", !.err = "config not found" ]
  /\ UNCHANGED << env, deployer, newCall, reqs, log, norm, amplify, run >>

\* switch target: deployDigitalOcean(cfg), deployAWS(), or the error
Dispatch ==
  /\ cmd.pc = "loaded"
  /\ \E target \in { EffectiveTarget(cmd.target, cmd.cfg) } :
       cmd' = [ cmd EXCEPT !.pc = "done",
                           !.call = IF target = "do" THEN "deployDigitalOcean"
                                    ELSE IF target = "aws" THEN "deployAWS" ELSE "none",
                           !.err = IF target \in { "do", "aws" } THEN "" ELSE "unknown target" ]
  /\ UNCHANGED << env, deployer, newCall, reqs, log, norm, amplify, run >>

\* mvpbridge deploy <target>: runDeploy(args[0])
InitCmd ==
  /\ env \in [ AWS_ACCESS_KEY_ID : { <<>> }, AWS_SECRET_ACCESS_KEY : { <<>> } ]
  /\ deployer = NoDeployer
  /\ newCall = NoCall
  /\ reqs = [ i \in { 1 } |-> NoRequest ]
  /\ log = [ i \in { 1 } |-> NoResult ]
  /\ norm = NoRun
  /\ \E target \in Targets : cmd = [ NoCommand EXCEPT !.pc = "start", !.target = target ]
  /\ amplify = NoService
  /\ run = NoDeploy

NextCmd ==
  \/ \E ok \in BOOLEAN, cfg \in Configs : LoadConfig(ok, cfg)
  \/ Dispatch

SpecCmd == InitCmd /\ [][NextCmd]_vars

(***************************************************************************)
(* AWSDeployer.Deploy (aws.go): the calls of getApp, getAppByID, updateApp, *)
(* createApp and createBranch it makes, each with the outcomes its request *)
(* can have.  Apps are numbered in the order of their creation; all bear   *)
(* the name d.AppName.                                                     *)
(***************************************************************************)

\* Deploy is called at most this many times
MaxDeploys == 3

sNotFound ==
  << "n", "o", "t", " ", "f", "o", "u", "n", "d" >>

\* "checking existing app: "
sCheckingExisting ==
  << "c", "h", "e", "c", "k", "i", "n", "g", " ", "e", "x", "i", "s", "t", "i", "n", "g", " ",
     "a", "p", "p", ":", " " >>

\* fmt.Errorf("app not found: %s", d.AppName)
AppNotFoundError(appName) ==
  << "a", "p", "p", " ", "n", "o", "t", " ", "f", "o", "u", "n", "d", ":", " " >> \o appName

\* fmt.Errorf("API error: %s", resp.Status) of getApp for an answer 503
sListStatusError ==
  << "A", "P", "I", " ", "e", "r", "r", "o", "r", ":", " ", "5", "0", "3", " ", "S", "e", "r",
     "v", "i", "c", "e", " ", "U", "n", "a", "v", "a", "i", "l", "a", "b", "l", "e" >>

\* fmt.Errorf("API error %d: %s", resp.StatusCode, string(body)) of doRequest
\* for an answer 404 that says the app was not found, and for an answer 429
sFetchMissingError ==
  << "A", "P", "I", " ", "e", "r", "r", "o", "r", " ", "4", "0", "4", ":", " ", "A", "p", "p",
     " ", "n", "o", "t", " ", "f", "o", "u", "n", "d" >>

sFetchThrottledError ==
  << "A", "P", "I", " ", "e", "r", "r", "o", "r", " ", "4", "2", "9", ":", " ", "R", "a", "t",
     "e", " ", "e", "x", "c", "e", "e", "d", "e", "d" >>

\* the error of d.client.Do
sSendError ==
  << "c", "o", "n", "n", "e", "c", "t", "i", "o", "n", " ", "r", "e", "f", "u", "s", "e", "d" >>

\* what a request can give: a transport error, a status that is an error, success
Outcomes == { "send", "status", "ok" }

\* the outcomes of the request of getAppByID: the error status is 404 or 429
FetchOutcomes == { "send", "missing", "throttled", "ok" }

\* Deploy after getApp has returned existing (0 for nil) and err (empty for nil)
AfterGetApp(r, existing, err) ==
  IF err # <<>> /\ ~Contains(err, sNotFound)
  THEN [ r EXCEPT !.pc = "done", !.ret = "error", !.err = sCheckingExisting \o err ]
  ELSE IF existing # 0
  THEN [ r EXCEPT !.pc = "updateApp", !.existing = existing, !.err = err ]
  ELSE [ r EXCEPT !.pc = "createApp", !.err = err ]

\* d.Deploy(...) is called
Deploy ==
  /\ deployer.exists
  /\ run.pc \in { "idle", "done" }
  /\ run.n < MaxDeploys
  /\ run' = [ NoDeploy EXCEPT !.pc = "getApp", !.n = run.n + 1 ]
  /\ UNCHANGED << env, deployer, newCall, reqs, log, norm, cmd, amplify >>

\* getApp up to the loop over the listed apps: the list request fails, or
\* no listed app has the name, or the first that has it is fetched
DeployGetApp(resp) ==
  /\ run.pc = "getApp"
  /\ \E r \in { [ run EXCEPT !.calls = @ \o << "getApp" >> ] } :
       run' \in
         IF resp = "send" THEN { AfterGetApp([ r EXCEPT !.listed = "failed" ], 0, sSendError) }
         ELSE IF resp = "status" THEN { AfterGetApp([ r EXCEPT !.listed = "failed" ], 0, sListStatusError) }
         ELSE IF amplify.apps = {}
         THEN { AfterGetApp([ r EXCEPT !.listed = "absent" ], 0, AppNotFoundError(deployer.AppName)) }
         ELSE { [ r EXCEPT !.listed = "found", !.existing = id, !.pc = "getAppByID" ] : id \in amplify.apps }
  /\ UNCHANGED << env, deployer, newCall, reqs, log, norm, cmd, amplify >>

\* getAppByID of the listed app, through doRequest
DeployGetAppByID(resp) ==
  /\ run.pc = "getAppByID"
  /\ \E r \in { [ run EXCEPT !.calls = @ \o << "getAppByID" >>, !.existing = 0 ] } :
       run' =
         IF resp = "ok" THEN AfterGetApp([ r EXCEPT !.fetched = "ok" ], run.existing, <<>>)
         ELSE AfterGetApp([ r EXCEPT !.fetched = "failed" ], 0,
                          IF resp = "send" THEN sSendError
                          ELSE IF resp = "missing" THEN sFetchMissingError
                          ELSE sFetchThrottledError)
  /\ UNCHANGED << env, deployer, newCall, reqs, log, norm, cmd, amplify >>

\* updateApp of the app found, through doRequest
DeployUpdateApp(resp) ==
  /\ run.pc = "updateApp"
  /\ run' = [ run EXCEPT !.calls = @ \o << "updateApp" >>, !.pc = "done",
                         !.ret = IF resp = "ok" THEN "ok" ELSE "error",
                         !.app = IF resp = "ok" THEN run.existing ELSE 0 ]
  /\ UNCHANGED << env, deployer, newCall, reqs, log, norm, cmd, amplify >>

\* createApp up to the call of createBranch: without GITHUB_TOKEN it returns
\* an error at once; the app the service creates gets the next number
DeployCreateApp(githubToken, resp) ==
  /\ run.pc = "createApp"
  /\ \E id \in { Cardinality(amplify.apps) + 1 } :
       IF githubToken # <<>> /\ resp = "ok"
       THEN /\ amplify' = [ amplify EXCEPT !.apps = @ \cup { id } ]
            /\ run' = [ run EXCEPT !.calls = @ \o << "createApp" >>, !.pc = "createBranch", !.app = id ]
       ELSE /\ run' = [ run EXCEPT !.calls = @ \o << "createApp" >>, !.pc = "done", !.ret = "error" ]
            /\ UNCHANGED amplify
  /\ UNCHANGED << env, deployer, newCall, reqs, log, norm, cmd >>

\* createBranch of the app created, and the return of createApp
DeployCreateBranch(resp) ==
  /\ run.pc = "createBranch"
  /\ IF resp = "ok"
     THEN /\ amplify' = [ amplify EXCEPT !.branches = @ \cup { run.app } ]
          /\ run' = [ run EXCEPT !.calls = @ \o << "createBranch" >>, !.pc = "done", !.ret = "ok" ]
     ELSE /\ run' = [ run EXCEPT !.calls = @ \o << "createBranch" >>, !.pc = "done",
                                 !.ret = "error", !.app = 0 ]
          /\ UNCHANGED amplify
  /\ UNCHANGED << env, deployer, newCall, reqs, log, norm, cmd >>

\* a deployer has been constructed; the service holds no app, or one app of
\* the name with its branch
InitDeploy ==
  /\ env \in [ AWS_ACCESS_KEY_ID : AccessKeyValues \ { <<>> },
               AWS_SECRET_ACCESS_KEY : SecretKeyValues \ { <<>> } ]
  /\ deployer = NewAWSDeployerResult(env, sAppName, sRepoURL, sBranch, <<>>).d
  /\ newCall = [ called |-> TRUE, region |-> <<>>, err |-> FALSE ]
  /\ reqs = [ i \in { 1 } |-> NoRequest ]
  /\ log = [ i \in { 1 } |-> NoResult ]
  /\ norm = NoRun
  /\ cmd = NoCommand
  /\ amplify \in { NoService, [ apps |-> { 1 }, branches |-> { 1 } ] }
  /\ run = NoDeploy

NextDeploy ==
  \/ Deploy
  \/ \E resp \in Outcomes : DeployGetApp(resp)
  \/ \E resp \in FetchOutcomes : DeployGetAppByID(resp)
  \/ \E resp \in Outcomes : DeployUpdateApp(resp)
  \/ \E githubToken \in TokenValues, resp \in Outcomes : DeployCreateApp(githubToken, resp)
  \/ \E resp \in Outcomes : DeployCreateBranch(resp)

SpecDeploy == InitDeploy /\ [][NextDeploy]_vars

(***************************************************************************)
(* Properties.                                                             *)
(***************************************************************************)

Signed(i) == log[i].op = "sign"

\* the Authorization header of the request in slot i, "" when there is none
Authorization(i) == HeaderGet(reqs[i].Header, sAuthorization)

\* what a reader of the body gets: the bytes, and whether the read ends in an error
Readable(body) == [ data |-> ReadAll(body).data, err |-> ReadAll(body).err ]

\* C1: two requests of identical content signed with the same credential at
\* the same time carry byte-identical Authorization headers.
C1_Deterministic ==
  \A i, j \in Slots :
    (Signed(i) /\ Signed(j) /\ log[i].pre = log[j].pre /\ log[i].d = log[j].d /\ log[i].t = log[j].t)
      => Authorization(i) = Authorization(j)

\* C2: after signing, the body that can be read from a request that has a
\* body is byte-identical to the body it had before.
C2_BodyPreserved ==
  \A i \in Slots :
    (Signed(i) /\ ~log[i].pre.Body.nil) => Readable(reqs[i].Body) = Readable(log[i].pre.Body)

\* C3: when a step of signing fails (the body cannot be read) signing is
\* aborted: no Authorization header is set.
C3_NoSignatureAfterError ==
  \A i \in Slots : (Signed(i) /\ log[i].readErr) => Authorization(i) = <<>>

\* the value of a string of decimal digits
RECURSIVE DecimalValue(_)
DecimalValue(s) == IF s = <<>> THEN 0 ELSE DecimalValue(SubSeq(s, 1, Len(s) - 1)) * 10 + (Ord(s[Len(s)]) - 48)

IsDigits(s) == \A k \in 1..Len(s) : s[k] \in { "0", "1", "2", "3", "4", "5", "6", "7", "8", "9" }

IsLowerHex(s) ==
  \A k \in 1..Len(s) :
    s[k] \in { "0", "1", "2", "3", "4", "5", "6", "7", "8", "9", "a", "b", "c", "d", "e", "f" }

LitAlgoCredential ==
  << "A", "W", "S", "4", "-", "H", "M", "A", "C", "-", "S", "H", "A", "2", "5", "6", " ",
     "C", "r", "e", "d", "e", "n", "t", "i", "a", "l", "=" >>
LitScopeTail ==
  << "/", "a", "m", "p", "l", "i", "f", "y", "/", "a", "w", "s", "4", "_", "r", "e", "q", "u", "e", "s", "t",
     ",", " ", "S", "i", "g", "n", "e", "d", "H", "e", "a", "d", "e", "r", "s", "=" >>
LitSignature == << ",", " ", "S", "i", "g", "n", "a", "t", "u", "r", "e", "=" >>
LitUsEast1 == << "u", "s", "-", "e", "a", "s", "t", "-", "1" >>

\* the Authorization header auth has the wire format for credential d, time
\* t and signed-header list signedHeaders
HasWireFormat(auth, d, t, signedHeaders) ==
  LET head == LitAlgoCredential \o d.AccessKey \o << "/" >>
      date == SubSeq(auth, Len(head) + 1, Len(head) + 8)
      mid  == << "/" >> \o d.Region \o LitScopeTail \o signedHeaders \o LitSignature
      sig  == SubSeq(auth, Len(head) + 8 + Len(mid) + 1, Len(auth))
  IN /\ auth = head \o date \o mid \o sig
     /\ Len(date) = 8 /\ IsDigits(date)
     /\ DecimalValue(SubSeq(date, 1, 4)) = t.year
     /\ DecimalValue(SubSeq(date, 5, 6)) = t.month
     /\ DecimalValue(SubSeq(date, 7, 8)) = t.day
     /\ Len(sig) = 64 /\ IsLowerHex(sig)

C10_WireFormat ==
  \A i \in Slots :
    Signed(i) =>
      /\ HasWireFormat(Authorization(i), log[i].d, log[i].t, log[i].signedHeaders)
      /\ LET lines == Split(log[i].canonicalRequest, "\n")
         IN lines[Len(lines) - 1] = log[i].signedHeaders

\* a signed POST whose signed-header list names content-type
C10_Witness ==
  \E i \in Slots :
    Signed(i) /\ reqs[i].Method = sPOST /\ Contains(log[i].signedHeaders, sContentType)

(***************************************************************************)
(* The canonicalization functions applied to requests of their own.        *)
(***************************************************************************)

MaxParams == 2
MaxHeaderValues == 3

\* a deployer constructed from a complete environment
DeployerReady ==
  /\ env \in [ AWS_ACCESS_KEY_ID : AccessKeyValues \ { <<>> },
               AWS_SECRET_ACCESS_KEY : SecretKeyValues \ { <<>> } ]
  /\ deployer = NewAWSDeployerResult(env, sAppName, sRepoURL, sBranch, <<>>).d
  /\ newCall = [ called |-> TRUE, region |-> <<>>, err |-> FALSE ]

\* the sequences of at most n elements of S
SeqsUpTo(S, n) == UNION { [ 1..k -> S ] : k \in 0..n }

\* the parameters a raw query is made of
QuerySegments ==
  { << "a", "=", "2" >>, << "a", "=", "1" >>, << "Z", "=", "%", "2", "f" >>, << "%", "7", "c", "=", "+" >>, << "b" >> }

\* the text with the hex digits of its percent-escapes in upper or lower case
EscapesTo(s, upper) ==
  [ k \in 1..Len(s) |->
      IF (k > 1 /\ s[k - 1] = "%") \/ (k > 2 /\ s[k - 2] = "%")
      THEN (IF upper THEN ToUpperChar(s[k]) ELSE ToLowerChar(s[k]))
      ELSE s[k] ]

Perms(n) == { p \in [ 1..n -> 1..n ] : \A a, b \in 1..n : p[a] = p[b] => a = b }

\* the same parameters in every order and with every case of their escapes
Variants(segs) ==
  { [ k \in 1..Len(segs) |-> EscapesTo(segs[p[k]], u[k]) ] :
      p \in Perms(Len(segs)), u \in [ 1..Len(segs) -> BOOLEAN ] }

\* GET <endpoint>?<rawQuery>
QueryRequest(rawQuery) == NewRequest(sGET, [ AppsURL EXCEPT !.RawQuery = rawQuery ], NilBody)

\* two requests whose URLs hold the same parameters
InitQuery ==
  /\ DeployerReady
  /\ \E segs \in SeqsUpTo(QuerySegments, MaxParams) :
       \E v \in Variants(segs) :
         reqs = [ i \in { 1, 2 } |->
                    QueryRequest(Join(IF i = 1 THEN segs ELSE v, << "&" >>)) ]
  /\ log = [ i \in { 1, 2 } |-> NoResult ]
  /\ norm = NoRun
  /\ cmd = NoCommand
  /\ amplify = NoService
  /\ run = NoDeploy

\* d.getCanonicalQueryString(req.URL.Query()) for the request of slot i
GetCanonicalQueryString(i) ==
  /\ deployer.exists
  /\ reqs[i].live
  /\ log' = [ log EXCEPT ![i] =
                [ NoResult EXCEPT !.op = "query", !.d = deployer, !.pre = reqs[i],
                                  !.canonicalQuery = getCanonicalQueryString(URLQuery(reqs[i].URL)) ] ]
  /\ UNCHANGED << env, deployer, newCall, reqs, norm, cmd, amplify, run >>

NextQuery == \E i \in Slots : GetCanonicalQueryString(i)

SpecQuery == InitQuery /\ [][NextQuery]_vars

sUserAgent     == << "U", "s", "e", "r", "-", "A", "g", "e", "n", "t" >>
sXAmzMeta      == << "X", "-", "A", "m", "z", "-", "M", "e", "t", "a" >>
sLowerXAmzMeta == << "x", "-", "a", "m", "z", "-", "m", "e", "t", "a" >>
sPaddedA       == << " ", "a", " " >>
sValueB        == << "b" >>

\* the number of values a header map holds
RECURSIVE CountValues(_, _)
CountValues(h, keys) ==
  IF keys = <<>> THEN 0 ELSE Len(h[Head(keys)]) + CountValues(h, Tail(keys))

HeaderRoom(i) == CountValues(reqs[i].Header, SetToSeq(DOMAIN reqs[i].Header)) < MaxHeaderValues

\* req.Header.Add(key, value) by the caller
AddHeader(i, key, value) ==
  /\ reqs[i].live
  /\ log[i].op = "none"
  /\ HeaderRoom(i)
  /\ reqs' = [ reqs EXCEPT ![i].Header = HeaderAdd(@, key, value) ]
  /\ UNCHANGED << env, deployer, newCall, log, norm, cmd, amplify, run >>

\* what the log keeps of a call of getCanonicalHeaders
HeadersResult(d, pre, ch) ==
  [ NoResult EXCEPT !.op = "headers", !.d = d, !.pre = pre,
                    !.canonicalHeaders = ch[1], !.signedHeaders = ch[2] ]

\* d.getCanonicalHeaders(req) for the request of slot i
GetCanonicalHeaders(i) ==
  /\ deployer.exists
  /\ reqs[i].live
  /\ \E last \in IterationOrders(reqs[i].Header) :
       log' = [ log EXCEPT ![i] = HeadersResult(deployer, reqs[i], getCanonicalHeaders(reqs[i], last)) ]
  /\ UNCHANGED << env, deployer, newCall, reqs, norm, cmd, amplify, run >>

InitHeaders ==
  /\ DeployerReady
  /\ reqs = [ i \in { 1 } |-> QueryRequest(<<>>) ]
  /\ log = [ i \in { 1 } |-> NoResult ]
  /\ norm = NoRun
  /\ cmd = NoCommand
  /\ amplify = NoService
  /\ run = NoDeploy

NextHeaders ==
  \/ \E i \in Slots, key \in { sUserAgent, sAuthorization, sXAmzMeta, sContentTypeKey, sHostKey },
        value \in { sPaddedA, sValueB } : AddHeader(i, key, value)
  \/ \E i \in Slots, key \in { sLowerXAmzMeta, sLowerHost }, value \in { sPaddedA, sValueB } :
       HeaderRoom(i) /\ AssignHeader(i, key, << value >>)
  \/ \E i \in Slots : GetCanonicalHeaders(i)

SpecHeaders == InitHeaders /\ [][NextHeaders]_vars

\* the payload hash of a request without a body
EmptyPayloadHash == sha256Hash(<<>>)

sQueryBA == << "b", "=", "2", "&", "a", "=", "1" >>
sQueryAB == << "a", "=", "1", "&", "b", "=", "2" >>
sValueA  == << "a" >>

\* what the log keeps of a call of createCanonicalRequest
CanonResult(d, pre, cr) ==
  [ NoResult EXCEPT !.op = "canon", !.d = d, !.pre = pre, !.payloadHash = EmptyPayloadHash,
                    !.canonicalRequest = cr[1], !.signedHeaders = cr[2] ]

\* d.createCanonicalRequest(req, payloadHash) for the request of slot i
CreateCanonicalRequest(i) ==
  /\ deployer.exists
  /\ reqs[i].live
  /\ \E last \in IterationOrders(reqs[i].Header) :
       log' = [ log EXCEPT ![i] =
                  CanonResult(deployer, reqs[i], createCanonicalRequest(reqs[i], EmptyPayloadHash, last)) ]
  /\ UNCHANGED << env, deployer, newCall, reqs, norm, cmd, amplify, run >>

\* POST to the host, with an empty path and no query
RootRequest == NewRequest(sPOST, [ AppsURL EXCEPT !.Path = <<>> ], NilBody)

\* two requests that differ at most in the order of their query parameters,
\* or requests of the bare host
InitCanon ==
  /\ DeployerReady
  /\ reqs \in [ { 1, 2 } -> { QueryRequest(sQueryBA), QueryRequest(sQueryAB), RootRequest } ]
  /\ log = [ i \in { 1, 2 } |-> NoResult ]
  /\ norm = NoRun
  /\ cmd = NoCommand
  /\ amplify = NoService
  /\ run = NoDeploy

NextCanon ==
  \/ \E i \in Slots, value \in { sValueA, sValueB } : AddHeader(i, sXAmzMeta, value)
  \/ \E i \in Slots : CreateCanonicalRequest(i)

SpecCanon == InitCanon /\ [][NextCanon]_vars

(***************************************************************************)
(* Properties of canonicalization.                                         *)
(***************************************************************************)

LitHost        == << "h", "o", "s", "t" >>
LitContentType == << "c", "o", "n", "t", "e", "n", "t", "-", "t", "y", "p", "e" >>
LitXAmzDash    == << "x", "-", "a", "m", "z", "-" >>
LitLowerEscape == << "%", "2", "f" >>
LitUpperEscape == << "%", "2", "F" >>

\* the name is one of those the signer signs
IsSelectedName(n) ==
  n = LitHost \/ n = LitContentType \/ (Len(n) >= 6 /\ SubSeq(n, 1, 6) = LitXAmzDash)

\* the names of a signed-header list
NamesOf(signedHeaders) == IF signedHeaders = <<>> THEN <<>> ELSE Split(signedHeaders, ";")

\* the lines of a canonical header block
LinesOf(block) == IF block = <<>> THEN <<>> ELSE Split(SubSeq(block, 1, Len(block) - 1), "\n")

LineName(line) == Cut(line, ":").before
LineValue(line) == Cut(line, ":").after

Range(seq) == { seq[k] : k \in 1..Len(seq) }

Count(seq, x) == Cardinality({ k \in 1..Len(seq) : seq[k] = x })

SameBag(a, b) == Len(a) = Len(b) /\ \A x \in Range(a) : Count(a, x) = Count(b, x)

\* names and header holds no name outside the selection, and none of the
\* names of header h that are outside it
OnlySelected(names, h) ==
  /\ \A n \in names : IsSelectedName(n)
  /\ \A key \in DOMAIN h : ~IsSelectedName(ToLower(key)) => ToLower(key) \notin names

\* C5: the signed-header list and the canonical header block of a request
\* hold only names that lowercase to host, content-type or x-amz-*; no other
\* header of the request (User-Agent, Authorization) appears in them.
C5_OnlySelectedHeaders ==
  \A i \in Slots :
    log[i].op = "headers" =>
      /\ OnlySelected(Range(NamesOf(log[i].signedHeaders)), log[i].pre.Header)
      /\ OnlySelected({ LineName(l) : l \in Range(LinesOf(log[i].canonicalHeaders)) }, log[i].pre.Header)

\* canonical headers computed for a request that holds User-Agent,
\* Authorization and a signed header
C5_Witness ==
  \E i \in Slots :
    /\ log[i].op = "headers"
    /\ { sUserAgent, sAuthorization, sXAmzMeta } \subseteq DOMAIN log[i].pre.Header
    /\ log[i].signedHeaders = sLowerXAmzMeta

\* the positions key, index of the values of h stored under a key that lowercases to n
ValuesUnder(h, n) ==
  UNION { { << key, k >> : k \in 1..Len(h[key]) } : key \in { x \in DOMAIN h : ToLower(x) = n } }

\* every selected name of h has one line, which holds the trimmed values of
\* all keys that lowercase to it
MergedLines(h, lines) ==
  \A n \in { ToLower(key) : key \in { x \in DOMAIN h : IsSelectedName(ToLower(x)) } } :
    /\ Count([ k \in 1..Len(lines) |-> LineName(lines[k]) ], n) = 1
    /\ \A l \in Range(lines) :
         LineName(l) = n =>
           /\ Len(Split(LineValue(l), ",")) = Cardinality(ValuesUnder(h, n))
           /\ \A p \in ValuesUnder(h, n) :
                Count(Split(LineValue(l), ","), TrimSpace(h[p[1]][p[2]]))
                  = Cardinality({ q \in ValuesUnder(h, n) : TrimSpace(h[q[1]][q[2]]) = TrimSpace(h[p[1]][p[2]]) })

\* C9: all values stored under names that lowercase to the same selected
\* name are on exactly one canonical line name:v1,v2,..., each trimmed, and
\* no lowercased name is on more than one line.
C9_RepeatedNamesMerge ==
  \A i \in Slots :
    log[i].op = "headers" => MergedLines(log[i].pre.Header, LinesOf(log[i].canonicalHeaders))

\* the parameters of a raw query, as written
Segments(q) == IF q = <<>> THEN <<>> ELSE Split(q, "&")

UpperEscapes(segs) == [ k \in 1..Len(segs) |-> EscapesTo(segs[k], TRUE) ]

\* the raw queries hold the same parameters, in any order and with any
\* case of the hex digits of their escapes
SameParameters(q1, q2) == SameBag(UpperEscapes(Segments(q1)), UpperEscapes(Segments(q2)))

\* the two requests have the same method, path, body, query parameters and
\* header names with the same values
SameContent(a, b) ==
  /\ a.Method = b.Method /\ a.URL.Path = b.URL.Path /\ a.Body = b.Body
  /\ SameBag(Segments(a.URL.RawQuery), Segments(b.URL.RawQuery))
  /\ DOMAIN a.Header = DOMAIN b.Header
  /\ \A key \in DOMAIN a.Header : SameBag(a.Header[key], b.Header[key])

\* C6: two requests of the same method, path, body, query parameters and
\* header names and values have the same canonical request and the same
\* signed-header list, whatever the order of insertion.
C6_OrderIndependent ==
  \A i, j \in Slots :
    (log[i].op = "canon" /\ log[j].op = "canon" /\ SameContent(log[i].pre, log[j].pre))
      => /\ log[i].canonicalRequest = log[j].canonicalRequest
         /\ log[i].signedHeaders = log[j].signedHeaders

\* the decoded name and value of a pair of a canonical query string
DecodedPair(pair) ==
  << QueryUnescape(Cut(pair, "=").before).val, QueryUnescape(Cut(pair, "=").after).val >>

\* names ascending and, within a name, values ascending
Ascending(pairs) ==
  \A k \in 1..(Len(pairs) - 1) :
    \/ StrLess(pairs[k][1], pairs[k + 1][1])
    \/ pairs[k][1] = pairs[k + 1][1] /\ ~StrLess(pairs[k + 1][2], pairs[k][2])

DecodedPairs(out) == [ k \in 1..Len(Segments(out)) |-> DecodedPair(Segments(out)[k]) ]

\* C7: the canonical query string is the same for every order of the same
\* parameters and either case of the hex digits of their escapes; its names
\* ascend and, within a name, its values ascend.
C7_QueryCanonical ==
  /\ \A i, j \in Slots :
       (log[i].op = "query" /\ log[j].op = "query"
          /\ SameParameters(log[i].pre.URL.RawQuery, log[j].pre.URL.RawQuery))
         => log[i].canonicalQuery = log[j].canonicalQuery
  /\ \A i \in Slots : log[i].op = "query" => Ascending(DecodedPairs(log[i].canonicalQuery))

\* two parameters in the two orders, an escape in lower case in one URL and
\* in upper case in the other
C7_Witness ==
  \E i, j \in Slots :
    /\ log[i].op = "query" /\ log[j].op = "query"
    /\ Len(Segments(log[i].pre.URL.RawQuery)) = 2
    /\ Segments(log[i].pre.URL.RawQuery)[1] = UpperEscapes(Segments(log[j].pre.URL.RawQuery))[2]
    /\ Contains(log[i].pre.URL.RawQuery, LitUpperEscape)
    /\ Contains(log[j].pre.URL.RawQuery, LitLowerEscape)
    /\ Len(Segments(log[i].canonicalQuery)) = 2

IsUpperHex(c) ==
  c \in { "0", "1", "2", "3", "4", "5", "6", "7", "8", "9", "A", "B", "C", "D", "E", "F" }

IsPlainByte(c) ==
  \/ c \in { "-", "_", ".", "~" }
  \/ IsDigits(<< c >>)
  \/ (Ord(c) >= 65 /\ Ord(c) <= 90)
  \/ (Ord(c) >= 97 /\ Ord(c) <= 122)

\* the text holds only unreserved bytes and %XX escapes in upper case
FullyEscaped(s) ==
  \A k \in 1..Len(s) :
    \/ IsPlainByte(s[k]) /\ ~(k > 1 /\ s[k - 1] = "%") /\ ~(k > 2 /\ s[k - 2] = "%")
    \/ s[k] = "%" /\ k + 2 <= Len(s) /\ IsUpperHex(s[k + 1]) /\ IsUpperHex(s[k + 2])
    \/ IsUpperHex(s[k]) /\ ((k > 1 /\ s[k - 1] = "%") \/ (k > 2 /\ s[k - 2] = "%"))

\* C8: in the canonical query string every byte of a name or value outside
\* the letters, digits and - _ . ~ is %XX in upper case (so / + = and & are
\* escaped), the other bytes are unchanged; no parameter gives "".
C8_QueryFullyEscaped ==
  \A i \in Slots :
    log[i].op = "query" =>
      /\ \A pair \in Range(Segments(log[i].canonicalQuery)) :
           /\ FullyEscaped(Cut(pair, "=").before)
           /\ FullyEscaped(Cut(pair, "=").after)
      /\ (log[i].pre.URL.RawQuery = <<>> => log[i].canonicalQuery = <<>>)

\* the headers that signing sets on a request
SigningHeaders == { sXAmzDate, sHostKey, sXAmzContentSha256, sAuthorization }

\* the text holds the secret, as it is or in hex
Exposes(text, secret) == Contains(text, secret) \/ Contains(text, HexEncode(Bytes(secret)))

\* C11: no header that signing sets on a request (X-Amz-Date, Host,
\* X-Amz-Content-Sha256, Authorization) holds the SecretKey; the
\* Authorization header is made of the access key, the credential scope, the
\* signed-header list and the signature only.
C11_SecretNotExposed ==
  \A i \in Slots :
    Signed(i) =>
      /\ \A name \in SigningHeaders :
           ~Exposes(HeaderGet(reqs[i].Header, name), log[i].d.SecretKey)
      /\ HasWireFormat(Authorization(i), log[i].d, log[i].t, log[i].signedHeaders)
      /\ ~Exposes(log[i].signature, log[i].d.SecretKey)

\* a request with a body signed with a secret key that is not empty
C11_Witness ==
  \E i \in Slots :
    /\ Signed(i) /\ ~log[i].readErr /\ ~reqs[i].Body.nil
    /\ log[i].d.SecretKey # <<>>
    /\ \A name \in SigningHeaders : HeaderGet(reqs[i].Header, name) # <<>>

LitAWS4        == << "A", "W", "S", "4" >>
LitAmplify     == << "a", "m", "p", "l", "i", "f", "y" >>
LitAws4Request == << "a", "w", "s", "4", "_", "r", "e", "q", "u", "e", "s", "t" >>

\* the text is the YYYYMMDD form of the time t
IsDateOf(date, t) ==
  /\ Len(date) = 8 /\ IsDigits(date)
  /\ DecimalValue(SubSeq(date, 1, 4)) = t.year
  /\ DecimalValue(SubSeq(date, 5, 6)) = t.month
  /\ DecimalValue(SubSeq(date, 7, 8)) = t.day

\* the date of the credential scope of an Authorization header
ScopeDate(auth, accessKey) ==
  SubSeq(auth, Len(LitAlgoCredential) + Len(accessKey) + 2, Len(LitAlgoCredential) + Len(accessKey) + 9)

\* the chain of four keyed digests over date, region, service and terminator
KeyChain(secret, date, region, service) ==
  hmacSHA256(hmacSHA256(hmacSHA256(hmacSHA256(Bytes(LitAWS4 \o secret), Bytes(date)),
                                   Bytes(region)), Bytes(service)), Bytes(LitAws4Request))

\* C12: every call of signRequestWithTime derives its key from the date of
\* its own time: the date of the credential scope, the date part of
\* X-Amz-Date and the date given to deriveSigningKey are that date, and the
\* key is not the key of another date.
C12_KeyOfOwnDate ==
  \A i \in Slots :
    Signed(i) =>
      /\ IsDateOf(log[i].keyDate, log[i].t)
      /\ SubSeq(HeaderGet(reqs[i].Header, sXAmzDate), 1, 8) = log[i].keyDate
      /\ ScopeDate(Authorization(i), log[i].d.AccessKey) = log[i].keyDate
      /\ SubSeq(log[i].credentialScope, 1, 8) = log[i].keyDate
      /\ log[i].signingKey = KeyChain(log[i].d.SecretKey, log[i].keyDate, log[i].d.Region, LitAmplify)
      /\ \A t \in Times :
           ~IsDateOf(log[i].keyDate, t) =>
             log[i].signingKey # KeyChain(log[i].d.SecretKey, FormatDateStamp(t), log[i].d.Region, LitAmplify)

\* a request signed on one day is signed again on the next day
C12_Witness ==
  \E i \in Slots :
    /\ Signed(i)
    /\ HeaderGet(log[i].pre.Header, sAuthorization) # <<>>
    /\ ~IsDateOf(SubSeq(HeaderGet(log[i].pre.Header, sXAmzDate), 1, 8), log[i].t)
    /\ log[i].t.day = 16

LitIam == << "i", "a", "m" >>

\* C13: with the request, the access key, the secret key and the time
\* fixed, another region gives another signature and another credential
\* scope in the Authorization header; with the secret, the date and the
\* region fixed, another service gives another signing key and another scope.
C13_RegionAndServiceMatter ==
  /\ \A i, j \in Slots :
       ( /\ Signed(i) /\ Signed(j)
         /\ log[i].pre = log[j].pre /\ log[i].t = log[j].t
         /\ log[i].d.AccessKey = log[j].d.AccessKey /\ log[i].d.SecretKey = log[j].d.SecretKey
         /\ log[i].d.Region # log[j].d.Region )
       => /\ log[i].signature # log[j].signature
          /\ Authorization(i) # Authorization(j)
          /\ SubSeq(Authorization(i), 1, Len(Authorization(i)) - 64)
               # SubSeq(Authorization(j), 1, Len(Authorization(j)) - 64)
  /\ \A i, j \in Slots :
       ( /\ log[i].op = "key" /\ log[j].op = "key"
         /\ log[i].d = log[j].d /\ log[i].keyDate = log[j].keyDate
         /\ log[i].service # log[j].service )
       => /\ log[i].signingKey # log[j].signingKey
          /\ CredentialScope(log[i].keyDate, log[i].d.Region, log[i].service)
               # CredentialScope(log[j].keyDate, log[j].d.Region, log[j].service)

\* the two requests signed at the same time for two regions
C13_Witness ==
  /\ Signed(1) /\ Signed(2) /\ log[1].t = log[2].t /\ log[1].pre = log[2].pre
  /\ log[1].d.Region = LitUsEast1 /\ log[2].d.Region # LitUsEast1 /\ ~reqs[1].Body.nil

\* the request of slot i is as one call of signRequestWithTime, run alone
\* on the request as it was at time t, leaves it
AsSignedAlone(i) ==
  \E last \in IterationOrders(SignPrepare(log[i].pre, log[i].t).req.Header) :
    reqs[i] = signRequestWithTime(log[i].d, log[i].pre, log[i].t, last).req

\* a step writes at most one request and its call, and nothing else
OneCallWritten ==
  /\ UNCHANGED << env, deployer, newCall, norm, cmd, amplify, run >>
  /\ Cardinality({ i \in Slots : reqs'[i] # reqs[i] \/ log'[i] # log[i] }) <= 1

\* C14: when calls of signRequestWithTime on distinct requests interleave on
\* one deployer, every request ends with the headers it has when signed
\* alone, and no step writes the deployer or anything another call uses.
C14_NoSharedState ==
  /\ [](\A i \in Slots : Signed(i) => AsSignedAlone(i))
  /\ [][OneCallWritten]_vars

\* the call on request 1 has run to its end while the call on request 2,
\* begun at another time on another request, is still under way
C14_Witness ==
  /\ Signed(1) /\ log[2].op = "canonical"
  /\ log[1].pre.Method # log[2].pre.Method
  /\ log[1].t # log[2].t

\* a call of the signer on request i has completed in this step
SignerRan(i) == log'[i] # log[i] /\ log'[i].op = "sign"

\* C15: the signer leaves the request it was given (method, URL, header
\* set, body) and the credential exactly as they were before the call.
C15_SignerPure ==
  [][\A i \in Slots : SignerRan(i) => reqs'[i] = reqs[i] /\ deployer' = deployer]_vars

\* the calls an operation has made, in order
Events(i) == log[i].events

\* C16: when the URL of a request an operation builds does not parse, the
\* operation returns that error at once: the failed build is its last call,
\* no request exists, and signRequest and client.Do are never called for it.
C16_NoSigningWithoutRequest ==
  \A i \in Slots : \A k \in DOMAIN Events(i) :
    (Events(i)[k].ev \in { "built", "build failed" } /\ urlParse(Events(i)[k].url).err)
      => /\ Events(i)[k].ev = "build failed"
         /\ k = Len(Events(i))
         /\ log[i].ret = "build"
         /\ reqs[i] = NoRequest
         /\ \A j \in DOMAIN Events(i) :
              Events(i)[j].n = Events(i)[k].n => Events(i)[j].ev \notin { "signRequest", "client.Do" }

\* createApp was answered with an app id that is no path segment: the
\* request of createBranch could not be built, after one request was sent
C16_Witness ==
  /\ log[1].op = "createBranch"
  /\ Events(1)[1].op = "createApp"
  /\ Len(Events(1)) = 4
  /\ Events(1)[3].ev = "client.Do"
  /\ Events(1)[4] = Ev("createBranch", 2, "build failed",
                       Endpoint(LitUsEast1, sAppsPath \o << "/" >> \o sBadAppID \o sBranches))

\* e3b0c44298fc1c149afbf4c8996fb92427ae41e4649b934ca495991b7852b855
LitEmptyHash ==
  << "e", "3", "b", "0", "c", "4", "4", "2", "9", "8", "f", "c", "1", "c", "1", "4",
     "9", "a", "f", "b", "f", "4", "c", "8", "9", "9", "6", "f", "b", "9", "2", "4",
     "2", "7", "a", "e", "4", "1", "e", "4", "6", "4", "9", "b", "9", "3", "4", "c",
     "a", "4", "9", "5", "9", "9", "1", "b", "7", "8", "5", "2", "b", "8", "5", "5" >>

\* the request had no body, or a body of no bytes that reads without error
HadEmptyBody(i) ==
  \/ log[i].pre.Body.nil
  \/ log[i].pre.Body.data = <<>> /\ log[i].pre.Body.failAfter = NeverFails

\* the last line of a text
LastLine(text) == Split(text, "\n")[Len(Split(text, "\n"))]

\* C17: a request with no body and a request with a body of no bytes get the
\* SHA-256 digest of the empty string as payload hash, and signing puts that
\* value in X-Amz-Content-Sha256 and in the last line of the canonical request.
C17_EmptyBodyHash ==
  \A i \in Slots : (Signed(i) /\ HadEmptyBody(i)) =>
    /\ log[i].payloadHash = LitEmptyHash
    /\ reqs[i].Header[sXAmzContentSha256] = << LitEmptyHash >>
    /\ LastLine(log[i].canonicalRequest) = LitEmptyHash

\* a GET without body has been signed
C17_Witness ==
  Signed(1) /\ log[1].pre.Body.nil /\ log[1].payloadHash = LitEmptyHash

\* a POST with a body of no bytes has been signed
C17_WitnessZeroLength ==
  Signed(1) /\ ~log[1].pre.Body.nil /\ log[1].pre.Body.data = <<>> /\ log[1].pre.Method = sPOST

\* c4afb1cc5771d871763a393e44b703571b55cc28424d1a5e86da6ed3c154a4b9
LitReferenceKey ==
  << "c", "4", "a", "f", "b", "1", "c", "c", "5", "7", "7", "1", "d", "8", "7", "1",
     "7", "6", "3", "a", "3", "9", "3", "e", "4", "4", "b", "7", "0", "3", "5", "7",
     "1", "b", "5", "5", "c", "c", "2", "8", "4", "2", "4", "d", "1", "a", "5", "e",
     "8", "6", "d", "a", "6", "e", "d", "3", "c", "1", "5", "4", "a", "4", "b", "9" >>

\* the arguments of the published example
LitReferenceSecret ==
  << "w", "J", "a", "l", "r", "X", "U", "t", "n", "F", "E", "M", "I", "/", "K", "7", "M", "D", "E", "N", "G", "+", "b", "P", "x", "R", "f", "i", "C", "Y", "E", "X", "A", "M", "P", "L", "E", "K", "E", "Y" >>
LitReferenceDate == << "2", "0", "1", "5", "0", "8", "3", "0" >>

\* a key has been derived in slot i
KeyDerived(i) == log[i].op = "key"

\* the four arguments of the call kept in slot i
KeyArguments(i) == << log[i].d.SecretKey, log[i].keyDate, log[i].d.Region, log[i].service >>

\* C18: deriveSigningKey is the chain HMAC(HMAC(HMAC(HMAC("AWS4" + secret,
\* date), region), service), "aws4_request"); equal arguments give equal
\* keys; the arguments of the published example give the published key.
C18_KeyIsTheChain ==
  \A i \in Slots : KeyDerived(i) =>
    /\ log[i].signingKey =
         KeyChain(log[i].d.SecretKey, log[i].keyDate, log[i].d.Region, log[i].service)
    /\ \A j \in Slots : (KeyDerived(j) /\ KeyArguments(j) = KeyArguments(i))
                            => log[j].signingKey = log[i].signingKey
    /\ KeyArguments(i) = << LitReferenceSecret, LitReferenceDate, LitUsEast1, LitIam >>
         => HexEncode(log[i].signingKey) = LitReferenceKey

\* the key of the published example has been derived, and a key for another
\* region from the same secret, date and service
C18_Witness ==
  /\ KeyDerived(1) /\ KeyDerived(2)
  /\ KeyArguments(1) = << LitReferenceSecret, LitReferenceDate, LitUsEast1, LitIam >>
  /\ HexEncode(log[1].signingKey) = LitReferenceKey
  /\ log[2].d.Region # LitUsEast1
  /\ log[2].d.SecretKey = LitReferenceSecret /\ log[2].keyDate = LitReferenceDate /\ log[2].service = LitIam
  /\ log[2].signingKey # log[1].signingKey

\* the arguments NewAWSDeployer is called with
LitAppName == << "a", "p", "p" >>
LitRepoURL == << "r", "e", "p", "o" >>
LitBranch  == << "m", "a", "i", "n" >>

\* C19: NewAWSDeployer returns an error and no deployer when
\* AWS_ACCESS_KEY_ID or AWS_SECRET_ACCESS_KEY is unset or empty (os.Getenv
\* gives "" for both); otherwise it returns a deployer with the app name,
\* repo URL and branch given, the two keys of the environment, an initialized
\* HTTP client, and the region given or us-east-1 when that is empty.
C19_NewAWSDeployer ==
  newCall.called =>
    IF env.AWS_ACCESS_KEY_ID = <<>> \/ env.AWS_SECRET_ACCESS_KEY = <<>>
    THEN newCall.err /\ deployer = NoDeployer
    ELSE /\ ~newCall.err
         /\ deployer = [ exists |-> TRUE,
                         AppName |-> LitAppName, RepoURL |-> LitRepoURL, Branch |-> LitBranch,
                         AccessKey |-> env.AWS_ACCESS_KEY_ID, SecretKey |-> env.AWS_SECRET_ACCESS_KEY,
                         Region |-> IF newCall.region = <<>> THEN LitUsEast1 ELSE newCall.region,
                         client |-> [ exists |-> TRUE, Timeout |-> 30 ] ]

\* NewAWSDeployer has returned a deployer for a region that was given
C19_Witness ==
  newCall.called /\ ~newCall.err /\ newCall.region # <<>> /\ deployer.client.exists

\* NewAWSDeployer has returned an error for a secret key that is not set
C19_WitnessError ==
  newCall.called /\ newCall.err /\ env.AWS_ACCESS_KEY_ID # <<>> /\ env.AWS_SECRET_ACCESS_KEY = <<>>

\* the rules of the run
RuleSet == { RulesOf(norm.fw)[k] : k \in 1..Len(RulesOf(norm.fw)) }

\* the commits of the run made for rule r
CommitsFor(r) == { j \in DOMAIN norm.commits : norm.commits[j].message = << "[mvpbridge] ", r >> }

\* C20: after a run that is not a dry run, every rule that was applied has
\* its own commit "[mvpbridge] <rule description>", and that commit holds the
\* changes of that rule and of no other rule, whatever the git commands did.
C20_OneCommitPerFix ==
  (norm.pc = "done" /\ ~norm.DryRun) =>
    \A r \in norm.applied :
      /\ Cardinality(CommitsFor(r)) = 1
      /\ \A j \in CommitsFor(r) : norm.commits[j].changes \cap RuleSet = { r }

\* C21: in a dry run no rule changes the working tree, nothing is staged or
\* committed, and Run returns no error, for every framework and whatever
\* the repository held before.
C21_DryRunChangesNothing ==
  norm.DryRun =>
    /\ norm.tree \cap RuleSet = {}
    /\ norm.index = {}
    /\ norm.commits = <<>>
    /\ ~norm.err

\* a dry run for a Next.js project has applied all its five rules and returned
C21_Witness ==
  /\ norm.DryRun /\ norm.pc = "done" /\ norm.fw = "NextJS"
  /\ norm.applied = RuleSet
  /\ norm.tree = { UserChange }

\* C22: with a configuration loaded, runDeploy("do") calls
\* deployDigitalOcean, runDeploy("aws") calls deployAWS, and every other
\* target is rejected with the error unknown target.
C22_DispatchByArgument ==
  (cmd.pc = "done" /\ cmd.cfg # NoConfig) =>
    /\ cmd.target = "do" => (cmd.call = "deployDigitalOcean" /\ cmd.err = "")
    /\ cmd.target = "aws" => (cmd.call = "deployAWS" /\ cmd.err = "")
    /\ cmd.target \notin { "do", "aws" } => (cmd.call = "none" /\ cmd.err = "unknown target")

\* the lines of the canonical request of slot i
CanonicalLines(i) == Split(log[i].canonicalRequest, "\n")

\* the values the canonical request of slot i signs under the name n: the
\* canonical header block lies between the query line and the blank line
\* that ends it
SignedValues(i, n) ==
  { LineValue(CanonicalLines(i)[k]) :
      k \in { j \in 4..(Len(CanonicalLines(i)) - 3) : LineName(CanonicalLines(i)[j]) = n } }

\* the bytes of the body of a request, none for a request without body
BodyBytes(req) == IF req.Body.nil THEN <<>> ELSE req.Body.data

\* the signed-header list names both headers and the values signed under
\* them are the last line of the canonical request and the second line of
\* the string to sign
SignedDateAndHash(i) ==
  /\ ToLower(sXAmzContentSha256) \in Range(NamesOf(log[i].signedHeaders))
  /\ ToLower(sXAmzDate) \in Range(NamesOf(log[i].signedHeaders))
  /\ SignedValues(i, ToLower(sXAmzContentSha256)) = { LastLine(log[i].canonicalRequest) }
  /\ SignedValues(i, ToLower(sXAmzDate)) = { Split(log[i].stringToSign, "\n")[2] }

\* C23: every signed request has x-amz-content-sha256 and x-amz-date in its
\* signed-header list; the value signed for x-amz-content-sha256 is the last
\* line of the canonical request, which is the hash of the body of the
\* request, and the value signed for x-amz-date is the timestamp of the
\* string to sign.
C23_DateAndHashSigned ==
  \A i \in Slots : Signed(i) =>
    /\ SignedDateAndHash(i)
    /\ LastLine(log[i].canonicalRequest) = sha256Hash(Bytes(BodyBytes(log[i].pre)))

\* the same for the requests whose body was read to its end
C23_Readable ==
  \A i \in Slots : (Signed(i) /\ ~log[i].readErr) =>
    /\ SignedDateAndHash(i)
    /\ LastLine(log[i].canonicalRequest) = sha256Hash(Bytes(BodyBytes(log[i].pre)))

\* for every signed request, the part of C23 on the signed-header list
C23_Listed ==
  \A i \in Slots : Signed(i) => SignedDateAndHash(i)
\* the headers of h whose name is host in any spelling
HostEntries(h) == { << key, h[key] >> : key \in { k \in DOMAIN h : ToLower(k) = LitHost } }

\* C24: after signRequestWithTime the request has a Host header: the
\* authority of its URL when Header.Get("Host") was empty before the call,
\* and what it held before otherwise, every header named host being left as
\* it was; host is in the signed-header list of every signed request.
C24_HostSigned ==
  \A i \in Slots : Signed(i) =>
    /\ HeaderGet(reqs[i].Header, sHostKey) # <<>>
    /\ IF HeaderGet(log[i].pre.Header, sHostKey) = <<>>
       THEN /\ reqs[i].Header[sHostKey] = << log[i].pre.URL.Host >>
            /\ HostEntries(log[i].pre.Header) \subseteq HostEntries(reqs[i].Header)
       ELSE HostEntries(reqs[i].Header) = HostEntries(log[i].pre.Header)
    /\ LitHost \in Range(NamesOf(log[i].signedHeaders))

\* a request without Host header has been signed and carries the authority
\* of its URL
C24_Witness ==
  \E i \in Slots :
    /\ Signed(i) /\ HostEntries(log[i].pre.Header) = {}
    /\ reqs[i].Header[sHostKey] = << sApiHost >>
    /\ LitHost \in Range(NamesOf(log[i].signedHeaders))

\* a request whose Host header named another host has been signed and still
\* names that host
C24_WitnessKept ==
  \E i \in Slots :
    /\ Signed(i) /\ HeaderGet(log[i].pre.Header, sHostKey) = sOtherHost
    /\ log[i].pre.URL.Host = sApiHost
    /\ reqs[i].Header[sHostKey] = << sOtherHost >>
\* the canonical URI of a request
CanonicalURI(req) == IF req.URL.Path = <<>> THEN << "/" >> ELSE req.URL.Path

\* what a canonical request holds between its third line and its last two lines
HeaderBlockOf(cr, method, uri, query, signedHeaders, payloadHash) ==
  SubSeq(cr, Len(method) + Len(uri) + Len(query) + 4,
             Len(cr) - Len(signedHeaders) - Len(payloadHash) - 2)

C25_WitnessFull ==
  \E i \in Slots :
    /\ log[i].op = "canon" /\ log[i].pre.URL.RawQuery = sQueryBA
    /\ Len(NamesOf(log[i].signedHeaders)) = 1
    /\ Split(log[i].canonicalRequest, "\n")[3] = sQueryAB
\* the names of the lines of a canonical header block, in their order
LineNames(block) == [ k \in 1..Len(LinesOf(block)) |-> LineName(LinesOf(block)[k]) ]

\* C26: the names of the signed-header list are the names of the lines of
\* the canonical header block, in the same order; they are lowercase and
\* strictly ascending; every line of the block is name:value and ends with a
\* newline.
C26_ListAndBlockAgree ==
  \A i \in Slots : log[i].op = "headers" =>
    LET names == NamesOf(log[i].signedHeaders)
        block == log[i].canonicalHeaders
    IN /\ LineNames(block) = names
       /\ log[i].signedHeaders = Join(names, << ";" >>)
       /\ \A k \in 1..Len(names) : names[k] = ToLower(names[k]) /\ names[k] # <<>>
       /\ \A k \in 1..(Len(names) - 1) : StrLess(names[k], names[k + 1])
       /\ block = <<>> \/ block[Len(block)] = "\n"
       /\ \A k \in 1..Len(LinesOf(block)) : \E c \in 1..Len(LinesOf(block)[k]) : LinesOf(block)[k][c] = ":"
       /\ (block = <<>>) = (names = <<>>)

\* the canonical headers of a request that holds three signed names
C26_Witness ==
  \E i \in Slots :
    /\ log[i].op = "headers"
    /\ DOMAIN log[i].pre.Header = { sContentTypeKey, sHostKey, sXAmzMeta }
    /\ log[i].signedHeaders = Join(<< LitContentType, LitHost, sLowerXAmzMeta >>, << ";" >>)
\* the request of slot i was signed before its last signing
Resigned(i) == Signed(i) /\ log[i].pre # log[i].first

\* the request of slot j was fresh at its signing
SignedFresh(j) == Signed(j) /\ log[j].pre = log[j].first

\* the three headers the signer writes
SignerHeaders(i) ==
  << HeaderGet(reqs[i].Header, sXAmzDate), HeaderGet(reqs[i].Header, sXAmzContentSha256),
     Authorization(i) >>

\* C27: a request signed at t1 and signed again at t2 carries the same
\* X-Amz-Date, X-Amz-Content-Sha256 and Authorization as a fresh copy of the
\* original request signed once at t2 by the same deployer, and the
\* Authorization header of the first signing is not among the headers the
\* second signing signs.
C27_NoStaleState ==
  \A i, j \in Slots :
    (Resigned(i) /\ SignedFresh(j) /\ log[i].first = log[j].first
       /\ log[i].d = log[j].d /\ log[i].t = log[j].t)
      => /\ SignerHeaders(i) = SignerHeaders(j)
         /\ ToLower(sAuthorization) \notin Range(NamesOf(log[i].signedHeaders))

\* the same for the requests that hold no header under the key host as written
C27_CanonicalKeys ==
  \A i, j \in Slots :
    (Resigned(i) /\ SignedFresh(j) /\ log[i].first = log[j].first
       /\ log[i].d = log[j].d /\ log[i].t = log[j].t
       /\ sLowerHost \notin DOMAIN log[i].first.Header)
      => /\ SignerHeaders(i) = SignerHeaders(j)
         /\ ToLower(sAuthorization) \notin Range(NamesOf(log[i].signedHeaders))

\* a request with a body signed on one day and again on the next, and its
\* copy signed once on the second day
C27_Reached ==
  \E i, j \in Slots :
    /\ Resigned(i) /\ SignedFresh(j) /\ log[i].first = log[j].first /\ log[i].t = log[j].t
    /\ log[i].first.Body.data # <<>>
    /\ HeaderGet(log[i].pre.Header, sXAmzDate) # HeaderGet(reqs[i].Header, sXAmzDate)
\* the SignedHeaders list of an Authorization header
SignedHeadersOf(auth) == Cut(Split(auth, ",")[2], "=").after

\* the lowercased names of the headers of h that fall under the selection of
\* the signer
SelectedNames(h) == { ToLower(key) : key \in { k \in DOMAIN h : IsSelectedName(ToLower(k)) } }

\* the request of slot i is the one handed to d.client.Do
HandedToClient(i) == log[i].pc = "signed"

\* C28: every request handed to the HTTP client carries an Authorization
\* header, and its headers named host, content-type or x-amz-* are exactly
\* those of the SignedHeaders list of that header: none is added or removed
\* between signing and sending.
C28_SentAsSigned ==
  \A i \in Slots : HandedToClient(i) =>
    /\ Authorization(i) # <<>>
    /\ SelectedNames(reqs[i].Header) = Range(NamesOf(SignedHeadersOf(Authorization(i))))

\* the same for the requests of createBranch
C28_Branch ==
  \A i \in Slots : (HandedToClient(i) /\ log[i].op = "createBranch") =>
    /\ Authorization(i) # <<>>
    /\ SelectedNames(reqs[i].Header) = Range(NamesOf(SignedHeadersOf(Authorization(i))))

\* every request handed to the client carries an Authorization header
C28_Authorized ==
  \A i \in Slots : HandedToClient(i) => Authorization(i) # <<>>

\* a request of createBranch is handed to the client with Content-Type signed
C28_BranchReached ==
  \E i \in Slots :
    /\ HandedToClient(i) /\ log[i].op = "createBranch"
    /\ LitContentType \in Range(NamesOf(SignedHeadersOf(Authorization(i))))
\* the functions Deploy has called in this run
Called == Range(run.calls)

\* the lookup of this run failed: the list request failed, or the fetch of
\* the listed app failed
LookupFailed == run.listed = "failed" \/ (run.listed = "found" /\ run.fetched = "failed")

\* C29: Deploy calls createApp only when the listing succeeded and held no
\* app of the name; when an app of the name was listed it never calls
\* createApp; when the lookup failed, for whatever error text, it returns an
\* error and calls none of createApp, updateApp and createBranch.
C29_CreateOnlyWhenAbsent ==
  /\ "createApp" \in Called => run.listed = "absent"
  /\ run.listed = "found" => "createApp" \notin Called
  /\ (run.pc = "done" /\ LookupFailed)
       => run.ret = "error" /\ Called \cap { "createApp", "updateApp", "createBranch" } = {}

\* the same for the runs whose lookup error does not hold the words not found
C29_OtherTexts ==
  (LookupFailed => ~Contains(run.err, sNotFound)) =>
    /\ "createApp" \in Called => run.listed = "absent"
    /\ (run.pc = "done" /\ LookupFailed)
         => run.ret = "error" /\ Called \cap { "createApp", "updateApp", "createBranch" } = {}

\* the lookup failed with an error that does not hold the words and Deploy
\* has returned
C29_OtherTextsReached ==
  run.pc = "done" /\ run.listed = "found" /\ run.fetched = "failed" /\ run.ret = "error"

\* C30: whenever Deploy has returned success, the app it returned has its
\* branch, created by a successful createBranch.
C30_BranchAfterSuccess ==
  (run.pc = "done" /\ run.ret = "ok") => run.app \in amplify.branches

\* the same for the runs that found no app
C30_Created ==
  (run.pc = "done" /\ run.ret = "ok" /\ "createApp" \in Called) => run.app \in amplify.branches

\* a run has created an app and its branch
C30_CreatedReached ==
  run.pc = "done" /\ run.ret = "ok" /\ run.listed = "absent" /\ run.app \in amplify.branches
====
